---------------------------- MODULE Spec2Model ----------------------------
(* Verification model of the doc-generator core:                          *)
(*   - the streaming LLM protocol adapters (ZhipuGLMAdapter, ErnieAdapter *)
(*     over HTTP + SSE, XfyunSparkAdapter over a WebSocket),              *)
(*   - the OAuth2 token cache of the ERNIE adapter,                       *)
(*   - the structural analyzer (parseCode / parsePython / parseJavaScript)*)
(*     and its block-extraction primitive extractPythonBlock.             *)
(* One specification per subsystem; every specification leaves the        *)
(* variables of the other subsystems untouched.                           *)
EXTENDS Integers, Sequences, FiniteSets, TLC

VARIABLES
    \* ---- streaming adapters (generateDocStream) ----
    provider,     \* "zhipu" | "ernie" | "xfyun" | "none"
    frames,       \* HTTP: the frames of the response body, in order
    wire,         \* HTTP: the units of the body the reader has not returned yet
    phase,        \* position of the async function / promise executor
    promise,      \* "pending" | "resolved" | "rejected"
    result,       \* the LLMResponse the promise resolved with
    error,        \* the error the promise rejected with
    fullContent,  \* let fullContent = ''
    usage,        \* let usage = undefined  (0 models undefined)
    delivered,    \* the chunks passed to onChunk, in call order
    late,         \* how many of them were passed after the promise settled
    readyState,   \* ws.readyState
    arrived,      \* WebSocket: the text of the frames that arrived, in order
    nframes,      \* WebSocket: number of 'message' events so far
    finalSeen,    \* WebSocket: a frame with header.status 2 arrived
    clock,        \* seconds since generateDocStream started
    inbound,      \* WebSocket: the peer can still deliver frames
    timer,        \* the setTimeout handle: "none" | "armed" | "fired"
    atTimeout,    \* what the watchdog found when it fired
    \* ---- ErnieAdapter (OAuth variant): the token cache ----
    accessToken,  \* private accessToken: string | null
    tokenExpiry,  \* private tokenExpiry: number
    now,          \* Date.now()
    credsOk,      \* config.apiKey has the form "apiKey:secretKey"
    cpc,          \* per caller: where its call is suspended
    ctok,         \* per caller: the token getAccessToken returned to it
    cresp,        \* per caller: the exchange response it is reading
    cstart,       \* per caller: the cache as its call found it
    cexch,        \* per caller: exchange requests sent by its current call
    issued,       \* the exchange responses so far; a token is its index here
    ncalls,       \* calls started so far
    \* ---- structural analyzer ----
    code,         \* parseCode(code, fileName, language): the source text
    fileName,
    language,     \* the language hint; NoHint models undefined
    ast,          \* what @babel/parser answers for this text
    pstate,       \* "idle" | "input" | "done"
    presult,      \* what parseCode returned, or that it raised
    \* ---- extractPythonBlock on its own ----
    blines,       \* lines
    bstart,       \* startIndex (0-based, as in the code)
    bstate,       \* "idle" | "input" | "done"
    bresult,      \* the returned block
    \* ---- PromptBuilder ----
    request,        \* the GenerateRequest: type, content, fileName, language
    maxCodeLength,  \* config.maxCodeLength
    parser,         \* what @babel/parser answers if the analyzer asks it
    qstate,         \* "idle" | "input" | "truncated" | "built"
    truncated,      \* what truncateCode returned
    built,          \* the BuiltPrompt, or that buildFromRequest raised
    analyzerCalls,  \* the texts parseCode was invoked on, in call order
    \* ---- MockDocGenerator.generateStream ----
    mdocType,       \* request.docType
    mcontent,       \* const content: the UTF-16 code units of the mock text
    mindex,         \* how many words the for loop has gone through
    mchunks,        \* the chunks passed to onChunk, in call order
    mstate,         \* "idle" | "looping" | "returned"
    mresult,        \* content of the returned GenerateResult
    \* ---- one DocGenerator: construction, then one generate call ----
    llmConfig,      \* config.llmConfig: provider, apiKey, appId, apiSecret
    ernieModule,    \* which ErnieAdapter './ernie' holds: "bearer" | "oauth"
    streaming,      \* the call is generateStream (else generate)
    adapter,        \* this.llmAdapter: its kind and its resolved credentials
    gstate,         \* where the call is suspended
    net,            \* network operations started so far, by kind
    response,       \* the HTTP response of the model request
    sock,           \* ws.readyState of the call's socket
    gtimer,         \* the 60 s timer of the socket: "none" | "armed" | "fired"
    hasContent,     \* fullContent is not empty
    failureSeen,    \* a transport or protocol failure hit the pending call
    outcome,        \* how the call ended: GenerateResult or error
    \* ---- XfyunSparkAdapter.createAuthUrl ----
    signer,         \* two adapters: model, appId, apiKey, apiSecret of each
    sclock,         \* the system clock, in ticks
    signed,         \* the computations so far: who, when, signature, URL
    \* ---- extractClassMethods / extractClassProperties on their own ----
    uname,          \* methodName = methodMatch[2], as its characters
    uvisibility,    \* the visibility derived from it
    ubody,          \* classBody: the lines of one class block
    uproperties,    \* what extractClassProperties returned for them
    ustate          \* "idle" | "input" | "done"

streamVars == <<provider, frames, wire, phase, promise, result, error,
                fullContent, usage, delivered, late, readyState, arrived,
                nframes, finalSeen, inbound, clock, timer, atTimeout>>

tokenVars == <<accessToken, tokenExpiry, now, credsOk, cpc, ctok, cresp,
               cstart, cexch, issued, ncalls>>

parseVars == <<code, fileName, language, ast, pstate, presult>>

blockVars == <<blines, bstart, bstate, bresult>>

promptVars == <<request, maxCodeLength, parser, qstate, truncated, built,
                analyzerCalls>>

\* the stages around the adapters and the analyzer
mockVars == <<mdocType, mcontent, mindex, mchunks, mstate, mresult>>

callVars == <<llmConfig, ernieModule, streaming, adapter, gstate, net,
              response, sock, gtimer, hasContent, failureSeen, outcome>>

signVars == <<signer, sclock, signed>>

unitVars == <<uname, uvisibility, ubody, uproperties, ustate>>

pipelineVars == <<promptVars, mockVars, callVars, signVars, unitVars>>

vars == <<streamVars, tokenVars, parseVars, blockVars, pipelineVars>>

-----------------------------------------------------------------------------
(* Bounds of the model *)

MaxFrames == 2          \* frames in one HTTP body / 'message' events on a socket
MaxClock == 90          \* the clock stops here

(* Program constants *)

WatchdogSec == 60       \* setTimeout(..., 60000)
FinalStatus == 2        \* response.header.status === 2
TickSec == WatchdogSec \div 2   \* granularity of the modelled clock

Texts == {"", "Hel", "lo"}
NoUsage == 0
Usages == {NoUsage, 7}

-----------------------------------------------------------------------------
(* Generic helpers *)

RECURSIVE Concat(_)
Concat(seq) == IF seq = <<>> THEN "" ELSE Head(seq) \o Concat(Tail(seq))

RECURSIVE Flatten(_)
Flatten(seqs) == IF seqs = <<>> THEN <<>> ELSE Head(seqs) \o Flatten(Tail(seqs))

RECURSIVE IsSubseq(_, _)
IsSubseq(s, t) ==
    IF s = <<>> THEN TRUE
    ELSE IF t = <<>> THEN FALSE
    ELSE IF Head(s) = Head(t) THEN IsSubseq(Tail(s), Tail(t))
    ELSE IsSubseq(s, Tail(t))

SeqsUpTo(S, n) == UNION {[1..k -> S] : k \in 0..n}

-----------------------------------------------------------------------------
(* Backends A and B: the SSE body and the read loop of generateDocStream *)

Providers == {"zhipu", "ernie", "xfyun"}

DataFrames == [kind : {"data"}, content : Texts, err : BOOLEAN, usage : Usages]
DoneFrame == [kind |-> "done", content |-> "", err |-> FALSE, usage |-> NoUsage]

(* The body is a sequence of units; a read may end after any unit.  A frame *)
(* is the line  data: <json>\n ; its JSON text is two units, so that a read *)
(* can end inside it, and it parses only when both units are in one line.   *)
Prefix == [t |-> "data: ", i |-> 0]
Newline == [t |-> "\n", i |-> 0]
DoneText == [t |-> "[DONE]", i |-> 0]
Json1(i) == [t |-> "json1", i |-> i]
Json2(i) == [t |-> "json2", i |-> i]

Encode(i, f) ==
    IF f.kind = "done" THEN <<Prefix, DoneText, Newline>>
    ELSE <<Prefix, Json1(i), Json2(i), Newline>>

Body(fs) == Flatten([i \in 1..Len(fs) |-> Encode(i, fs[i])])

(* chunk.split('\n') *)
RECURSIVE SplitAcc(_, _, _)
SplitAcc(chunk, cur, acc) ==
    IF chunk = <<>> THEN Append(acc, cur)
    ELSE IF Head(chunk) = Newline THEN SplitAcc(Tail(chunk), <<>>, Append(acc, cur))
    ELSE SplitAcc(Tail(chunk), Append(cur, Head(chunk)), acc)

Split(chunk) == SplitAcc(chunk, <<>>, <<>>)

(* .filter(line => line.trim()) : no unit is blank, so only '' is dropped *)
FilterNonBlank(ls) == SelectSeq(ls, LAMBDA l : l # <<>>)

(* JSON.parse(data) succeeds on the whole JSON text of one frame only *)
JsonParses(data) ==
    /\ Len(data) = 2
    /\ data[1].t = "json1"
    /\ data[2].t = "json2"
    /\ data[1].i = data[2].i

(* A chunk handed over at the wrong end of the sequence of deliveries *)
OnChunkFront(chunks, content) == <<content>> \o chunks

(* onChunk?.(content) *)
OnChunk(chunks, content) == Append(chunks, content)

(* fullContent += content *)
Accumulate(full, content) == full \o content

(* A loop body whose handler for unparsable frames also swallows the        *)
(* embedded error of Backend B                                              *)
ProcessLineSwallowing(prov, fs, st, line) ==
    IF st.thrown THEN st
    ELSE IF Head(line) # Prefix THEN st
    ELSE LET data == Tail(line) IN
         IF data = <<DoneText>> THEN st
         ELSE IF ~JsonParses(data) THEN st
         ELSE LET parsed == fs[data[1].i] IN
              IF prov = "ernie" /\ parsed.err
              THEN st
              ELSE LET content == parsed.content
                       st1 == IF content # ""
                              THEN [st EXCEPT
                                      !.fullContent = Accumulate(@, content),
                                      !.delivered = OnChunk(@, content)]
                              ELSE st
                   IN IF parsed.usage # NoUsage
                      THEN [st1 EXCEPT !.usage = parsed.usage]
                      ELSE st1

(* The body of  for (const line of lines)  in ZhipuGLMAdapter and            *)
(* ErnieAdapter (ernie.ts).  st is the loop state; st.thrown is set when the *)
(* embedded-error exception leaves the loop.                                 *)
ProcessLine(prov, fs, st, line) ==
    IF st.thrown THEN st
    ELSE IF Head(line) # Prefix THEN st                \* !line.startsWith('data: ')
    ELSE LET data == Tail(line) IN                     \* line.slice(6)
         IF data = <<DoneText>> THEN st                \* data === '[DONE]'
         ELSE IF ~JsonParses(data) THEN st             \* catch: ignored
         ELSE LET parsed == fs[data[1].i] IN
              IF prov = "ernie" /\ parsed.err
              THEN [st EXCEPT !.thrown = TRUE]         \* rethrown by the catch
              ELSE LET content == parsed.content
                       st1 == IF content # ""
                              THEN [st EXCEPT
                                      !.fullContent = Accumulate(@, content),
                                      !.delivered = OnChunk(@, content)]
                              ELSE st
                   IN IF parsed.usage # NoUsage
                      THEN [st1 EXCEPT !.usage = parsed.usage]
                      ELSE st1

RECURSIVE ProcessLines(_, _, _, _)
ProcessLines(prov, fs, st, ls) ==
    IF ls = <<>> THEN st
    ELSE ProcessLines(prov, fs, ProcessLine(prov, fs, st, Head(ls)), Tail(ls))

IsHttp == provider \in {"zhipu", "ernie"}

wsIdle == <<readyState, arrived, nframes, finalSeen, inbound, clock, timer,
            atTimeout, tokenVars, parseVars, blockVars, pipelineVars>>

(* const response = await fetch(...); if (!response.ok) throw ...;           *)
(* const reader = response.body?.getReader(); if (!reader) throw ...         *)
Fetch ==
    /\ IsHttp /\ phase = "fetch"
    /\ \E ok \in BOOLEAN, hasBody \in BOOLEAN :
         IF ~ok
         THEN /\ promise' = "rejected" /\ error' = "http-status"
              /\ phase' = "done"
         ELSE IF ~hasBody
         THEN /\ promise' = "rejected" /\ error' = "no-stream"
              /\ phase' = "done"
         ELSE /\ phase' = "read"
              /\ UNCHANGED <<promise, error>>
    /\ UNCHANGED <<provider, frames, wire, result, fullContent, usage,
                   delivered, late>>
    /\ UNCHANGED wsIdle

(* One iteration of  while (true)  with done = false: the read returns the  *)
(* next n units of the body, and every line of the chunk is processed.      *)
ReadChunk ==
    /\ IsHttp /\ phase = "read" /\ wire # <<>>
    /\ \E n \in 1..Len(wire) :
         LET chunk == SubSeq(wire, 1, n)
             lines == FilterNonBlank(Split(chunk))
             st0 == [fullContent |-> fullContent, usage |-> usage,
                     delivered |-> delivered, thrown |-> FALSE]
             st == ProcessLines(provider, frames, st0, lines)
         IN /\ wire' = SubSeq(wire, n + 1, Len(wire))
            /\ fullContent' = st.fullContent
            /\ usage' = st.usage
            /\ delivered' = st.delivered
            /\ IF st.thrown
               THEN /\ promise' = "rejected" /\ error' = "api-error"
                    /\ phase' = "done"
               ELSE UNCHANGED <<promise, error, phase>>
    /\ UNCHANGED <<provider, frames, result, late>>
    /\ UNCHANGED wsIdle

(* done = true: break; reader.releaseLock(); return { content, usage } *)
ReadDone ==
    /\ IsHttp /\ phase = "read" /\ wire = <<>>
    /\ promise' = "resolved"
    /\ result' = [content |-> fullContent, usage |-> usage]
    /\ phase' = "done"
    /\ UNCHANGED <<provider, frames, wire, error, fullContent, usage,
                   delivered, late>>
    /\ UNCHANGED wsIdle

-----------------------------------------------------------------------------
(* Backend C: XfyunSparkAdapter.generateDocStream, a promise settled from   *)
(* the socket's event handlers and from the watchdog timer                  *)

JunkFrame == [kind |-> "junk", code |-> 0, status |-> 0, hasText |-> FALSE,
              content |-> "", usage |-> NoUsage]

WsFrames ==
    {JunkFrame}
    \cup [kind : {"msg"}, code : {0}, status : {0, FinalStatus},
          hasText : BOOLEAN, content : Texts, usage : Usages]
    \cup [kind : {"msg"}, code : {10013}, status : {0},
          hasText : {TRUE}, content : {"lo"}, usage : {NoUsage}]

IsWs == provider = "xfyun"

httpIdle == <<frames, wire, tokenVars, parseVars, blockVars, pipelineVars>>

(* resolve(v) and reject(e) settle the promise once; later calls do nothing *)
Resolve(v) ==
    IF promise = "pending"
    THEN promise' = "resolved" /\ result' = v /\ UNCHANGED error
    ELSE UNCHANGED <<promise, result, error>>

Reject(e) ==
    IF promise = "pending"
    THEN promise' = "rejected" /\ error' = e /\ UNCHANGED result
    ELSE UNCHANGED <<promise, result, error>>

(* ws.close(): an open socket starts the closing handshake *)
CloseSocket(rs) == IF rs = "OPEN" THEN "CLOSING" ELSE rs

(* import('ws').then(...).catch(...): the socket is created and the timer   *)
(* armed, or the promise is rejected                                         *)
LoadWs ==
    /\ IsWs /\ phase = "import"
    /\ \E ok \in BOOLEAN :
         IF ok
         THEN /\ phase' = "socket"
              /\ readyState' = "CONNECTING"
              /\ timer' = "armed"
              /\ UNCHANGED <<promise, result, error>>
         ELSE /\ phase' = "done"
              /\ Reject("no-ws-module")
              /\ UNCHANGED <<readyState, timer>>
    /\ UNCHANGED <<provider, fullContent, usage, delivered, late, arrived,
                   nframes, finalSeen, inbound, clock, atTimeout>>
    /\ UNCHANGED httpIdle

(* ws.on('open'): the request envelope is sent *)
WsOpen ==
    /\ IsWs /\ readyState = "CONNECTING"
    /\ readyState' = "OPEN"
    /\ inbound' = TRUE
    /\ UNCHANGED <<provider, phase, promise, result, error, fullContent, usage,
                   delivered, late, arrived, nframes, finalSeen, clock, timer,
                   atTimeout>>
    /\ UNCHANGED httpIdle

\* a check of the header that lets every frame pass
NeverErrorFrame(f) == FALSE

\* response.header.code !== 0
IsErrorFrame(f) == f.code # 0

\* a check of the status that takes every frame for the last one
AnyFrameIsFinal(f) == TRUE

\* response.header.status === 2
IsFinalFrame(f) == f.status = FinalStatus

(* ws.on('message') *)
WsMessage(f) ==
    /\ IsWs /\ inbound /\ nframes < MaxFrames
    /\ nframes' = nframes + 1
    /\ arrived' = IF f.kind = "msg" /\ f.hasText
                  THEN Append(arrived, f.content) ELSE arrived
    /\ finalSeen' = (finalSeen \/ (f.kind = "msg" /\ f.status = FinalStatus))
    /\ IF f.kind = "junk"
       THEN \* JSON.parse or response.header throws: caught and logged
            UNCHANGED <<promise, result, error, fullContent, usage, delivered,
                        late, readyState>>
       ELSE IF IsErrorFrame(f)
       THEN /\ readyState' = CloseSocket(readyState)
            /\ Reject("api-error")
            /\ UNCHANGED <<fullContent, usage, delivered, late>>
       ELSE LET full == IF f.hasText THEN Accumulate(fullContent, f.content)
                        ELSE fullContent
                use == IF f.usage # NoUsage THEN f.usage ELSE usage
            IN /\ fullContent' = full
               /\ delivered' = IF f.hasText THEN OnChunk(delivered, f.content)
                               ELSE delivered
               /\ late' = IF f.hasText /\ promise # "pending"
                          THEN late + 1 ELSE late
               /\ usage' = use
               /\ IF IsFinalFrame(f)
                  THEN /\ readyState' = CloseSocket(readyState)
                       /\ Resolve([content |-> full, usage |-> use])
                  ELSE UNCHANGED <<readyState, promise, result, error>>
    /\ UNCHANGED <<provider, phase, inbound, clock, timer, atTimeout>>
    /\ UNCHANGED httpIdle

(* ws.on('error'): the socket is torn down, nothing more is received *)
WsError ==
    /\ IsWs /\ readyState \in {"CONNECTING", "OPEN"}
    /\ Reject("ws-error")
    /\ readyState' = "CLOSING"
    /\ inbound' = FALSE
    /\ UNCHANGED <<provider, phase, fullContent, usage, delivered, late,
                   arrived, nframes, finalSeen, clock, timer, atTimeout>>
    /\ UNCHANGED httpIdle

(* ws.on('close') *)
WsClose ==
    /\ IsWs /\ readyState \in {"OPEN", "CLOSING"}
    /\ readyState' = "CLOSED"
    /\ inbound' = FALSE
    /\ IF fullContent = ""
       THEN Reject("closed-empty")
       ELSE UNCHANGED <<promise, result, error>>
    /\ UNCHANGED <<provider, phase, fullContent, usage, delivered, late,
                   arrived, nframes, finalSeen, clock, timer, atTimeout>>
    /\ UNCHANGED httpIdle

(* The setTimeout callback *)
Timeout ==
    /\ IsWs /\ timer = "armed" /\ clock >= WatchdogSec
    /\ timer' = "fired"
    /\ atTimeout' = [readyState |-> readyState, pending |-> promise = "pending",
                     finalSeen |-> finalSeen]
    /\ IF readyState = "OPEN"
       THEN /\ readyState' = CloseSocket(readyState)
            /\ Reject("timeout")
       ELSE UNCHANGED <<readyState, promise, result, error>>
    /\ UNCHANGED <<provider, phase, fullContent, usage, delivered, late,
                   arrived, nframes, finalSeen, inbound, clock>>
    /\ UNCHANGED httpIdle

(* Wall-clock time passes; a due timer fires before more time passes *)
Tick ==
    /\ IsWs /\ timer # "none" /\ clock < MaxClock
    /\ timer = "fired" \/ clock + TickSec <= WatchdogSec
    /\ clock' = clock + TickSec
    /\ UNCHANGED <<provider, phase, promise, result, error, fullContent, usage,
                   delivered, late, readyState, arrived, nframes, finalSeen,
                   inbound, timer, atTimeout>>
    /\ UNCHANGED httpIdle

NoResult == [content |-> "", usage |-> NoUsage]
NoTimeout == [readyState |-> "NONE", pending |-> FALSE, finalSeen |-> FALSE]

StreamInit ==
    /\ provider \in Providers
    /\ IF provider = "xfyun"
       THEN frames = <<>> /\ phase = "import"
       ELSE /\ \E fs \in SeqsUpTo(DataFrames, MaxFrames), t \in BOOLEAN :
                 frames = IF t THEN Append(fs, DoneFrame) ELSE fs
            /\ phase = "fetch"
    /\ wire = Body(frames)
    /\ promise = "pending"
    /\ result = NoResult
    /\ error = "none"
    /\ fullContent = ""
    /\ usage = NoUsage
    /\ delivered = <<>>
    /\ late = 0
    /\ readyState = "NONE"
    /\ arrived = <<>>
    /\ nframes = 0
    /\ finalSeen = FALSE
    /\ inbound = FALSE
    /\ clock = 0
    /\ timer = "none"
    /\ atTimeout = NoTimeout

StreamNext ==
    \/ Fetch
    \/ ReadChunk
    \/ ReadDone
    \/ LoadWs
    \/ WsOpen
    \/ \E f \in WsFrames : WsMessage(f)
    \/ WsError
    \/ WsClose
    \/ Timeout
    \/ Tick


-----------------------------------------------------------------------------
(* Backend B with OAuth2 client credentials: ErnieAdapter.getAccessToken and *)
(* the calls built on it.  Several calls may be suspended at once.           *)

NumCallers == 2         \* concurrent callers of one adapter
MaxCalls == 3           \* calls started in one run
MaxTicks == 3           \* the clock stops after this many ticks

SafetyMarginSec == 300  \* (data.expires_in - 300)
MsPerSec == 1000        \* ... * 1000
TickMs == 100 * MsPerSec

Callers == 1..NumCallers
NoToken == 0            \* accessToken = null
Lifetimes == {200, 400, 500}     \* data.expires_in, in seconds
NoResponse == [token |-> NoToken, expires_in |-> 0]
NoStart == [valid |-> FALSE, token |-> NoToken]

(* A validity check that forgets the expiry *)
TokenPresent == accessToken # NoToken

(* if (this.accessToken && Date.now() < this.tokenExpiry) *)
TokenStillValid == accessToken # NoToken /\ now < tokenExpiry

(* Date.now() + (data.expires_in - 300) * 1000 *)
ExpiryFor(expires_in) == now + (expires_in - SafetyMarginSec) * MsPerSec

(* generateDoc / generateDocStream call getAccessToken, which runs up to its *)
(* first await: the cached token is returned, or the credentials are parsed  *)
(* and the exchange request is sent.                                         *)
GetAccessToken(c) ==
    /\ cpc[c] = "idle" /\ ncalls < MaxCalls
    /\ ncalls' = ncalls + 1
    /\ cstart' = [cstart EXCEPT ![c] = [valid |-> accessToken # NoToken
                                                  /\ now < tokenExpiry,
                                        token |-> accessToken]]
    /\ IF TokenStillValid
       THEN /\ ctok' = [ctok EXCEPT ![c] = accessToken]
            /\ cpc' = [cpc EXCEPT ![c] = "request"]
            /\ cexch' = [cexch EXCEPT ![c] = 0]
       ELSE IF ~credsOk
       THEN /\ cpc' = [cpc EXCEPT ![c] = "failed"]
            /\ cexch' = [cexch EXCEPT ![c] = 0]
            /\ UNCHANGED ctok
       ELSE /\ cpc' = [cpc EXCEPT ![c] = "exchange"]
            /\ cexch' = [cexch EXCEPT ![c] = 1]
            /\ UNCHANGED ctok
    /\ UNCHANGED <<accessToken, tokenExpiry, now, credsOk, cresp, issued>>
    /\ UNCHANGED <<streamVars, parseVars, blockVars, pipelineVars>>

(* await fetch(token endpoint) returns; if (!response.ok) throw *)
ExchangeResponse(c) ==
    /\ cpc[c] = "exchange"
    /\ \E ok \in BOOLEAN, life \in Lifetimes :
         IF ok
         THEN /\ issued' = Append(issued, [expires_in |-> life, at |-> now])
              /\ cresp' = [cresp EXCEPT ![c] = [token |-> Len(issued) + 1,
                                                expires_in |-> life]]
              /\ cpc' = [cpc EXCEPT ![c] = "json"]
         ELSE /\ cpc' = [cpc EXCEPT ![c] = "failed"]
              /\ UNCHANGED <<issued, cresp>>
    /\ UNCHANGED <<accessToken, tokenExpiry, now, credsOk, ctok, cstart, cexch,
                   ncalls>>
    /\ UNCHANGED <<streamVars, parseVars, blockVars, pipelineVars>>

(* A write of the token that leaves the expiry of the previous token *)
StoreTokenOnly(c) ==
    /\ cpc[c] = "json"
    /\ accessToken' = cresp[c].token
    /\ ctok' = [ctok EXCEPT ![c] = cresp[c].token]
    /\ cpc' = [cpc EXCEPT ![c] = "request"]
    /\ UNCHANGED <<tokenExpiry, now, credsOk, cresp, cstart, cexch, issued,
                   ncalls>>
    /\ UNCHANGED <<streamVars, parseVars, blockVars, pipelineVars>>

(* await response.json() returns: token and expiry are written, and the     *)
(* token is returned, without suspending in between                          *)
StoreToken(c) ==
    /\ cpc[c] = "json"
    /\ accessToken' = cresp[c].token
    /\ tokenExpiry' = ExpiryFor(cresp[c].expires_in)
    /\ ctok' = [ctok EXCEPT ![c] = accessToken']
    /\ cpc' = [cpc EXCEPT ![c] = "request"]
    /\ UNCHANGED <<now, credsOk, cresp, cstart, cexch, issued, ncalls>>
    /\ UNCHANGED <<streamVars, parseVars, blockVars, pipelineVars>>

(* The model request with ?access_token=... completes and the call returns, *)
(* or the call ended in an error; the caller may call again                  *)
FinishCall(c) ==
    /\ cpc[c] \in {"request", "failed"}
    /\ cpc' = [cpc EXCEPT ![c] = "idle"]
    /\ UNCHANGED <<accessToken, tokenExpiry, now, credsOk, ctok, cresp, cstart,
                   cexch, issued, ncalls>>
    /\ UNCHANGED <<streamVars, parseVars, blockVars, pipelineVars>>

TickToken ==
    /\ now < MaxTicks * TickMs
    /\ now' = now + TickMs
    /\ UNCHANGED <<accessToken, tokenExpiry, credsOk, cpc, ctok, cresp, cstart,
                   cexch, issued, ncalls>>
    /\ UNCHANGED <<streamVars, parseVars, blockVars, pipelineVars>>

TokenInit ==
    /\ accessToken = NoToken
    /\ tokenExpiry = 0
    /\ now = 0
    /\ credsOk \in BOOLEAN
    /\ cpc = [c \in Callers |-> "idle"]
    /\ ctok = [c \in Callers |-> NoToken]
    /\ cresp = [c \in Callers |-> NoResponse]
    /\ cstart = [c \in Callers |-> NoStart]
    /\ cexch = [c \in Callers |-> 0]
    /\ issued = <<>>
    /\ ncalls = 0

TokenNext ==
    \/ \E c \in Callers : GetAccessToken(c)
    \/ \E c \in Callers : ExchangeResponse(c)
    \/ \E c \in Callers : StoreToken(c)
    \/ \E c \in Callers : FinishCall(c)
    \/ TickToken

-----------------------------------------------------------------------------
(* The structural analyzer.  Source text is a sequence of symbols: single  *)
(* characters and a few multi-character fragments that the regular         *)
(* expressions of the parser match as a whole.                             *)

MaxCodeLen == 4         \* symbols in an analyzed text
MaxLines == 4           \* lines handed to extractPythonBlock
MaxIndent == 2          \* leading blanks of such a line
MaxLoc == 2             \* line numbers in a syntax tree
MaxNodes == 2           \* declarations / comments in a syntax tree

ClassTok == "class A:"
DefTok == "def f():"
DQ == "\"\"\""
SQ == "'''"
Hash == "#"
Sp == " "
Word == "x"
LF == "\n"
CR == "\r"

Symbols == {ClassTok, DefTok, DQ, SQ, Hash, Sp, Word, LF, CR}

\* fragments with the names of the class Foo(Bar) scenario
ClassFooBar == "class Foo(Bar):"
DefInit == "def __init__(self):"
SelfX == "self.x = 1"
ClassProp == "y = 2"

\* further fragments of a class body
AsyncDefTok == "async def g(self):"
SelfY == "self.y = 1"

ClassToks == {ClassTok, ClassFooBar}
DefToks == {DefTok, DefInit}
\* what methodMatch accepts behind the indent: (async\s+)?def\s+(\w+)...
MethodToks == DefToks \cup {AsyncDefTok}
SelfToks == {SelfX, SelfY}

\* match[1] of classRegex and match[2] of funcRegex / methodMatch
ClassNameOf(tok) == IF tok = ClassFooBar THEN "Foo" ELSE "A"
MethodNameOf(tok) ==
    IF tok = DefInit THEN "__init__" ELSE IF tok = AsyncDefTok THEN "g" ELSE "f"

\* propMatch[1]
SelfNameOf(tok) == IF tok = SelfY THEN "y" ELSE "x"

\* match[2] of classRegex: the text between the parentheses, if any
NoInheritance == ""
InheritanceOf(tok) == IF tok = ClassFooBar THEN "Bar" ELSE NoInheritance

\* the characters of a method name
NameChars(name) ==
    IF name = "__init__" THEN <<"_", "_", "i", "n", "i", "t", "_", "_">>
    ELSE <<name>>

StartsWith(s, prefix) ==
    Len(s) >= Len(prefix) /\ SubSeq(s, 1, Len(prefix)) = prefix

EndsWith(s, suffix) ==
    Len(s) >= Len(suffix) /\ SubSeq(s, Len(s) - Len(suffix) + 1, Len(s)) = suffix

(* \s within a line *)
IsSpace(c) == c \in {Sp, CR}

(* code.split('\n') *)
RECURSIVE SplitLinesAcc(_, _, _)
SplitLinesAcc(text, cur, acc) ==
    IF text = <<>> THEN Append(acc, cur)
    ELSE IF Head(text) = LF THEN SplitLinesAcc(Tail(text), <<>>, Append(acc, cur))
    ELSE SplitLinesAcc(Tail(text), Append(cur, Head(text)), acc)

SplitLines(text) == SplitLinesAcc(text, <<>>, <<>>)

\* the length of the leading whitespace of the line: line.match(/^(\s*)/)
RECURSIVE Indent(_)
Indent(line) ==
    IF line = <<>> \/ ~IsSpace(Head(line)) THEN 0 ELSE 1 + Indent(Tail(line))

(* !line.trim() *)
IsBlank(line) == Indent(line) = Len(line)

(* The  for (let i = startIndex + 1; ...)  loop of extractPythonBlock; i is *)
(* the 1-based position of lines[i - 1], strict the test that ends a block  *)
RECURSIVE ScanBlock(_, _, _, _, _)
ScanBlock(lines, i, startIndent, res, strict) ==
    IF i > Len(lines) THEN res
    ELSE LET line == lines[i] IN
         IF IsBlank(line)
         THEN ScanBlock(lines, i + 1, startIndent, Append(res, line), strict)
         ELSE IF (IF strict THEN Indent(line) < startIndent
                            ELSE Indent(line) <= startIndent)
              THEN res
              ELSE ScanBlock(lines, i + 1, startIndent, Append(res, line), strict)

(* A block cut only at a line indented less than the header *)
ExtractPythonBlockStrict(lines, startIndex) ==
    ScanBlock(lines, startIndex + 2, Indent(lines[startIndex + 1]),
              <<lines[startIndex + 1]>>, TRUE)

(* extractPythonBlock(lines, startIndex), startIndex 0-based *)
ExtractPythonBlock(lines, startIndex) ==
    ScanBlock(lines, startIndex + 2, Indent(lines[startIndex + 1]),
              <<lines[startIndex + 1]>>, FALSE)

\* the 1-based line holding position p: code.slice(0, index).split('\n').length
RECURSIVE CountLF(_)
CountLF(text) ==
    IF text = <<>> THEN 0
    ELSE (IF Head(text) = LF THEN 1 ELSE 0) + CountLF(Tail(text))

LineAt(text, p) == CountLF(SubSeq(text, 1, p - 1)) + 1

\* ^ under the m flag: the start of the text, or just after a line terminator
AtLineStart(text, p) == p = 1 \/ text[p - 1] \in {LF, CR}

(* extractPythonComments, first pass: lines whose trimmed text starts with # *)
RECURSIVE LineCommentsFrom(_, _)
LineCommentsFrom(lines, i) ==
    IF i > Len(lines) THEN <<>>
    ELSE LET line == lines[i]
             rest == LineCommentsFrom(lines, i + 1)
         IN IF ~IsBlank(line) /\ line[Indent(line) + 1] = Hash
            THEN <<[type |-> "line", startLine |-> i, endLine |-> i]>> \o rest
            ELSE rest

(* The position of the next symbol `quote` at or after i, or 0 *)
RECURSIVE FindClose(_, _, _)
FindClose(text, quote, i) ==
    IF i > Len(text) THEN 0
    ELSE IF text[i] = quote THEN i
    ELSE FindClose(text, quote, i + 1)

(* The successive matches of docstringRegex, with the captured content *)
RECURSIVE DocstringMatches(_, _)
DocstringMatches(text, from) ==
    IF from > Len(text) THEN <<>>
    ELSE IF text[from] \in {DQ, SQ} /\ FindClose(text, text[from], from + 1) # 0
    THEN LET q == FindClose(text, text[from], from + 1)
         IN <<[start |-> from, end |-> q, quote |-> text[from],
               content |-> SubSeq(text, from + 1, q - 1)]>>
            \o DocstringMatches(text, q + 1)
    ELSE DocstringMatches(text, from + 1)

(* (match[1] || match[2]).trim(): match[1] is the capture of the """ form,  *)
(* match[2] that of the other; an empty match[1] is falsy and match[2] is  *)
(* then undefined, so .trim() raises a TypeError                            *)
TrimRaises(m) == m.quote = DQ /\ m.content = <<>>

BlockComment(text, m) ==
    [type |-> "block", startLine |-> LineAt(text, m.start),
     endLine |-> LineAt(text, m.end + 1)]

CommentsRaise(text) ==
    LET ms == DocstringMatches(text, 1)
    IN \E i \in 1..Len(ms) : TrimRaises(ms[i])

ExtractPythonComments(text, lines) ==
    LET ms == DocstringMatches(text, 1)
    IN LineCommentsFrom(lines, 1)
       \o [i \in 1..Len(ms) |-> BlockComment(text, ms[i])]

(* extractClassMethods: the lines of the block that are an indented def *)
IsMethodLine(line) ==
    /\ Indent(line) >= 1
    /\ Indent(line) < Len(line)
    /\ line[Indent(line) + 1] \in MethodToks

\* line.match(/^\s+def\s+/)
IsDefLine(line) ==
    /\ Indent(line) >= 1
    /\ Indent(line) < Len(line)
    /\ line[Indent(line) + 1] \in DefToks

\* the visibility that extractClassMethods derives from the characters of
\* the method name
Visibility(chars) ==
    IF StartsWith(chars, <<"_", "_">>) /\ ~EndsWith(chars, <<"_", "_">>)
    THEN "private"
    ELSE IF StartsWith(chars, <<"_">>) THEN "protected"
    ELSE "public"

VisibilityOf(name) == Visibility(NameChars(name))

MethodOf(line) ==
    LET methodName == MethodNameOf(line[Indent(line) + 1])
    IN [name |-> methodName, visibility |-> VisibilityOf(methodName)]

ExtractClassMethods(classBody) ==
    LET ms == SelectSeq(classBody, IsMethodLine)
    IN [i \in 1..Len(ms) |-> MethodOf(ms[i])]

(* extractClassProperties, first loop: self.xxx = inside __init__ *)
IsInitLine(line) ==
    /\ Indent(line) >= 1
    /\ Indent(line) < Len(line)
    /\ line[Indent(line) + 1] = DefInit

LeavesInit(line, initIndent) ==
    \/ ~IsBlank(line) /\ Indent(line) = 0
    \/ IsDefLine(line) /\ Indent(line) <= initIndent

HasSelfAssignment(line) == \E i \in 1..Len(line) : line[i] \in SelfToks

\* propMatch[1] of the first match in the line
SelfNameIn(line) ==
    SelfNameOf(line[CHOOSE i \in 1..Len(line) :
                       /\ line[i] \in SelfToks
                       /\ \A j \in 1..(i - 1) : line[j] \notin SelfToks])

RECURSIVE InitProperties(_, _, _, _, _)
InitProperties(classBody, i, inInit, initIndent, props) ==
    IF i > Len(classBody) THEN props
    ELSE LET line == classBody[i] IN
         IF IsInitLine(line)
         THEN InitProperties(classBody, i + 1, TRUE, Indent(line), props)
         ELSE IF inInit /\ LeavesInit(line, initIndent)
         THEN InitProperties(classBody, i + 1, FALSE, initIndent, props)
         ELSE IF inInit /\ HasSelfAssignment(line)
                 /\ \A j \in 1..Len(props) : props[j].name # SelfNameIn(line)
         THEN InitProperties(classBody, i + 1, inInit, initIndent,
                             Append(props, [name |-> SelfNameIn(line)]))
         ELSE InitProperties(classBody, i + 1, inInit, initIndent, props)

(* second loop: a class-level  name = value  behind exactly four blanks *)
IsClassPropLine(line) ==
    /\ Len(line) >= 5
    /\ \A i \in 1..4 : IsSpace(line[i])
    /\ line[5] = ClassProp
    /\ \A i \in 1..Len(line) : line[i] \notin MethodToks

RECURSIVE ClassLevelProperties(_, _, _)
ClassLevelProperties(classBody, i, props) ==
    IF i > Len(classBody) THEN props
    ELSE IF IsClassPropLine(classBody[i])
            /\ \A j \in 1..Len(props) : props[j].name # "y"
    THEN ClassLevelProperties(classBody, i + 1, Append(props, [name |-> "y"]))
    ELSE ClassLevelProperties(classBody, i + 1, props)

ExtractClassProperties(classBody) ==
    ClassLevelProperties(classBody, 1,
                         InitProperties(classBody, 1, FALSE, 0, <<>>))

(* extractPythonClasses: one ClassInfo per match of classRegex *)
PythonClassAt(text, lines, p) ==
    LET startLine == LineAt(text, p)
        classBody == ExtractPythonBlock(lines, startLine - 1)
    IN [name |-> ClassNameOf(text[p]), startLine |-> startLine,
        endLine |-> startLine + Len(classBody) - 1,
        superClass |-> InheritanceOf(text[p]),
        methods |-> ExtractClassMethods(classBody),
        properties |-> ExtractClassProperties(classBody)]

RECURSIVE ExtractPythonClasses(_, _, _)
ExtractPythonClasses(text, lines, p) ==
    IF p > Len(text) THEN <<>>
    ELSE IF text[p] \in ClassToks /\ AtLineStart(text, p)
    THEN <<PythonClassAt(text, lines, p)>> \o ExtractPythonClasses(text, lines, p + 1)
    ELSE ExtractPythonClasses(text, lines, p + 1)

(* extractPythonFunctions: one FunctionInfo per match of funcRegex whose    *)
(* source line does not start with whitespace                               *)
PythonFunctionAt(text, lines, p) ==
    LET startLine == LineAt(text, p)
        funcBody == ExtractPythonBlock(lines, startLine - 1)
    IN [name |-> MethodNameOf(text[p]), startLine |-> startLine,
        endLine |-> startLine + Len(funcBody) - 1, methods |-> <<>>]

RECURSIVE ExtractPythonFunctions(_, _, _)
ExtractPythonFunctions(text, lines, p) ==
    IF p > Len(text) THEN <<>>
    ELSE LET rest == ExtractPythonFunctions(text, lines, p + 1) IN
         IF text[p] \in DefToks /\ AtLineStart(text, p)
         THEN LET lineContent == lines[LineAt(text, p)]
              IN IF lineContent # <<>> /\ IsSpace(Head(lineContent))
                 THEN rest
                 ELSE <<PythonFunctionAt(text, lines, p)>> \o rest
         ELSE rest

(* What parseCode hands back: a CodeMetadata, or an exception (raised) *)
Metadata(name, lang, text) ==
    [raised |-> FALSE, fileName |-> name, language |-> lang,
     classes |-> <<>>, functions |-> <<>>, interfaces |-> <<>>,
     imports |-> <<>>, exports |-> <<>>, comments |-> <<>>, rawCode |-> text]

Raised(name, lang, text) == [Metadata(name, lang, text) EXCEPT !.raised = TRUE]

(* parsePython: no handler around the extraction passes *)
ParsePython(text, name) ==
    LET lines == SplitLines(text)
    IN IF CommentsRaise(text) THEN Raised(name, "python", text)
       ELSE [Metadata(name, "python", text) EXCEPT
               !.comments = ExtractPythonComments(text, lines),
               !.classes = ExtractPythonClasses(text, lines, 1),
               !.functions = ExtractPythonFunctions(text, lines, 1)]

(* ---- parseJavaScript: the syntax tree is the answer of @babel/parser ---- *)

NoLoc == [has |-> FALSE, start |-> 0, end |-> 0]

\* node.loc of a parsed node: 1-based lines, start before or at end
Locs == {NoLoc} \cup
        {l \in [has : {TRUE}, start : 1..MaxLoc, end : 1..MaxLoc] :
            l.start <= l.end}

NodeKinds == {"Comment", "ClassDeclaration", "FunctionDeclaration",
              "ArrowFunction", "TSInterfaceDeclaration"}

\* only a class or a function declaration can lack its identifier
AstNodes == {n \in [kind : NodeKinds, hasId : BOOLEAN, loc : Locs] :
                n.hasId \/ n.kind \in {"ClassDeclaration", "FunctionDeclaration"}}

\* the parser was not called
NoAst == [threw |-> FALSE, nodes |-> <<>>]
\* parser.parse raised a SyntaxError
ParseThrows == [threw |-> TRUE, nodes |-> <<>>]

\* ast.comments and the visits of traverse follow the source, except that the
\* VariableDeclaration visitor records all its declarators on entry, before a
\* function declaration nested in an earlier declarator is visited
InVisitOrder(nodes) ==
    \A i, j \in 1..Len(nodes) :
        i < j /\ nodes[i].loc.has /\ nodes[j].loc.has
        /\ ~(nodes[i].kind = "ArrowFunction" /\ nodes[j].kind = "FunctionDeclaration")
        => nodes[i].loc.start <= nodes[j].loc.start

BabelOutcomes == {ParseThrows} \cup
                 {o \in [threw : {FALSE}, nodes : SeqsUpTo(AstNodes, MaxNodes)] :
                     InVisitOrder(o.nodes)}

\* node.loc?.start.line || 0   and   node.loc?.end.line || 0
StartLineOf(node) == IF node.loc.has /\ node.loc.start # 0 THEN node.loc.start ELSE 0
EndLineOf(node) == IF node.loc.has /\ node.loc.end # 0 THEN node.loc.end ELSE 0

CommentOf(node) ==
    [type |-> "block", startLine |-> StartLineOf(node), endLine |-> EndLineOf(node)]

extractClassInfo(node) ==
    [name |-> IF node.hasId THEN "A" ELSE "Anonymous",
     startLine |-> StartLineOf(node), endLine |-> EndLineOf(node),
     methods |-> <<>>]

extractFunctionInfo(node) ==
    [name |-> IF node.hasId THEN "f" ELSE "anonymous",
     startLine |-> StartLineOf(node), endLine |-> EndLineOf(node),
     methods |-> <<>>]

extractArrowFunctionInfo(node) ==
    [name |-> "f", startLine |-> StartLineOf(node), endLine |-> EndLineOf(node),
     methods |-> <<>>]

extractInterfaceInfo(node) ==
    [name |-> "I", startLine |-> StartLineOf(node), endLine |-> EndLineOf(node),
     methods |-> <<>>]

IsComment(n) == n.kind = "Comment"
IsClass(n) == n.kind = "ClassDeclaration"
\* FunctionDeclaration is kept only  if (path.node.id)
IsFunction(n) == \/ n.kind = "FunctionDeclaration" /\ n.hasId
                 \/ n.kind = "ArrowFunction"
IsInterface(n) == n.kind = "TSInterfaceDeclaration"

FunctionOf(n) ==
    IF n.kind = "ArrowFunction" THEN extractArrowFunctionInfo(n)
    ELSE extractFunctionInfo(n)

\* ast.comments.map(...)
JsComments(nodes) ==
    LET kept == SelectSeq(nodes, IsComment)
    IN [i \in 1..Len(kept) |-> CommentOf(kept[i])]

\* what the visitors of traverse push, in visiting order
JsClasses(nodes) ==
    LET kept == SelectSeq(nodes, IsClass)
    IN [i \in 1..Len(kept) |-> extractClassInfo(kept[i])]

JsFunctions(nodes) ==
    LET kept == SelectSeq(nodes, IsFunction)
    IN [i \in 1..Len(kept) |-> FunctionOf(kept[i])]

JsInterfaces(nodes) ==
    LET kept == SelectSeq(nodes, IsInterface)
    IN [i \in 1..Len(kept) |-> extractInterfaceInfo(kept[i])]

(* parseJavaScript: everything after the metadata literal is inside try/catch *)
ParseJavaScript(text, name, lang, babel) ==
    IF babel.threw THEN Metadata(name, lang, text)
    ELSE [Metadata(name, lang, text) EXCEPT
            !.comments = JsComments(babel.nodes),
            !.classes = JsClasses(babel.nodes),
            !.functions = JsFunctions(babel.nodes),
            !.interfaces = JsInterfaces(babel.nodes)]

(* ---- parseCode ---- *)

NoHint == ""            \* language omitted
NoLanguage == ""        \* getLanguageFromFileName answered null

SUPPORTED_LANGUAGES == {"javascript", "typescript", "python"}

Dot == "."

ToLowerCase(c) ==
    CASE c = "T" -> "t" [] c = "S" -> "s" [] c = "P" -> "p" [] c = "Y" -> "y"
      [] OTHER -> c

\* fileName.lastIndexOf('.') as a 1-based position, 0 when there is no dot
LastIndexOfDot(name) ==
    LET dots == {i \in 1..Len(name) : name[i] = Dot}
    IN IF dots = {} THEN 0 ELSE CHOOSE i \in dots : \A j \in dots : j <= i

\* fileName.slice(fileName.lastIndexOf('.')): slice(-1) when there is no dot
ExtensionOf(name) ==
    LET from == IF LastIndexOfDot(name) = 0 THEN Len(name) ELSE LastIndexOfDot(name)
        ext == SubSeq(name, from, Len(name))
    IN [i \in 1..Len(ext) |-> ToLowerCase(ext[i])]

EXTENSION_MAP(ext) ==
    CASE ext = <<".", "j", "s">> -> "javascript"
      [] ext = <<".", "j", "s", "x">> -> "javascript"
      [] ext = <<".", "t", "s">> -> "typescript"
      [] ext = <<".", "t", "s", "x">> -> "typescript"
      [] ext = <<".", "p", "y">> -> "python"
      [] OTHER -> NoLanguage

getLanguageFromFileName(name) == EXTENSION_MAP(ExtensionOf(name))

isLanguageSupported(lang) == lang \in SUPPORTED_LANGUAGES

\* language || getLanguageFromFileName(fileName)
DetectedLanguage(hint, name) ==
    IF hint # NoHint THEN hint ELSE getLanguageFromFileName(name)

IsJs(hint, name) == DetectedLanguage(hint, name) \in {"javascript", "typescript"}

parseCode(text, name, hint, babel) ==
    LET detectedLanguage == DetectedLanguage(hint, name)
    IN IF detectedLanguage = NoLanguage \/ ~isLanguageSupported(detectedLanguage)
       THEN Metadata(name,
                     IF detectedLanguage = NoLanguage THEN "unknown"
                     ELSE detectedLanguage, text)
       ELSE IF detectedLanguage = "python" THEN ParsePython(text, name)
       ELSE ParseJavaScript(text, name, detectedLanguage, babel)

(* ---- the analyzer as a state machine: one call of parseCode ---- *)

MaxOtherLen == 1        \* symbols in a text that is not analyzed as Python

RECURSIVE Spaces(_)
Spaces(k) == IF k = 0 THEN <<>> ELSE <<Sp>> \o Spaces(k - 1)

\* class header / method at four blanks / statement at eight / final newline
ScenarioText(classTok, defTok, stmt, newline) ==
    <<classTok, LF>> \o Spaces(4) \o <<defTok, LF>> \o Spaces(8) \o <<stmt>>
    \o (IF newline THEN <<LF>> ELSE <<>>)

\* class Foo(Bar): / def __init__(self): / self.x = 1
FooBarText == ScenarioText(ClassFooBar, DefInit, SelfX, TRUE)

Scenarios == {ScenarioText(c, f, st, nl) :
                c \in ClassToks, f \in DefToks,
                st \in {SelfX, ClassProp, Word}, nl \in BOOLEAN}

Codes == SeqsUpTo(Symbols, MaxCodeLen) \cup Scenarios

FileNames == {<<"m", ".", "p", "y">>, <<"m", ".", "T", "S">>,
              <<"m", ".", "r", "b">>, <<"m", "k">>}

Hints == {NoHint, "python", "javascript", "go"}

NoMetadata == Metadata(<<>>, "", <<>>)

ParseIdle ==
    /\ code = <<>> /\ fileName = <<>> /\ language = NoHint /\ ast = NoAst
    /\ pstate = "idle" /\ presult = NoMetadata

ParseInit ==
    /\ code \in Codes
    /\ fileName \in FileNames
    /\ language \in Hints
    /\ Len(code) > MaxOtherLen => DetectedLanguage(language, fileName) = "python"
    /\ ast \in (IF IsJs(language, fileName) THEN BabelOutcomes ELSE {NoAst})
    /\ pstate = "input"
    /\ presult = NoMetadata

CallParseCode ==
    /\ pstate = "input"
    /\ presult' = parseCode(code, fileName, language, ast)
    /\ pstate' = "done"
    /\ UNCHANGED <<code, fileName, language, ast, streamVars, tokenVars, blockVars,
                   pipelineVars>>

ParseNext == CallParseCode

(* ---- extractPythonBlock on its own ---- *)

BlockLines == {Spaces(k) : k \in 0..MaxIndent} \cup
              {Spaces(k) \o <<Word>> : k \in 0..MaxIndent}

BlockIdle == blines = <<>> /\ bstart = 0 /\ bstate = "idle" /\ bresult = <<>>

BlockInit ==
    /\ blines \in SeqsUpTo(BlockLines, MaxLines) \ {<<>>}
    /\ bstart \in 0..(Len(blines) - 1)
    /\ bstate = "input"
    /\ bresult = <<>>

CallExtractPythonBlock ==
    /\ bstate = "input"
    /\ bresult' = ExtractPythonBlock(blines, bstart)
    /\ bstate' = "done"
    /\ UNCHANGED <<blines, bstart, streamVars, tokenVars, parseVars, pipelineVars>>

BlockNext == CallExtractPythonBlock

-----------------------------------------------------------------------------
(* PromptBuilder: truncateCode and buildFromRequest *)

MaxContentLen == 4      \* characters of request.content
MaxMaxCodeLength == 3   \* config.maxCodeLength (50000 by default)

\* '\n\n// ... (code too long, truncated) ...': two newlines and the notice
MarkerText == "// ... truncated ..."
Marker == <<LF, LF, MarkerText>>

\* truncated.lastIndexOf('\n') as a 1-based position, 0 when there is none
LastIndexOfNewline(text) ==
    LET nls == {i \in 1..Len(text) : text[i] = LF}
    IN IF nls = {} THEN 0 ELSE CHOOSE i \in nls : \A j \in nls : j <= i

\* a truncation that appends the marker without cutting the code
TruncateCodeUncut(text, max) ==
    IF Len(text) <= max THEN text ELSE text \o Marker

\* PromptBuilder.truncateCode; lastNewline > 0 is a position of 2 or more
truncateCode(text, max) ==
    IF Len(text) <= max THEN text
    ELSE LET cut == SubSeq(text, 1, max)
             lastNewline == LastIndexOfNewline(cut)
         IN (IF lastNewline > 1 THEN SubSeq(cut, 1, lastNewline - 1) ELSE cut)
            \o Marker

NoFileName == <<>>      \* request.fileName undefined

\* generateUserPrompt: the parts that depend on the input
generateUserPrompt(inputType, content, hasMetadata, metadata) ==
    [section |-> IF inputType = "code" THEN "code" ELSE "text",
     fence |-> IF inputType = "code" /\ hasMetadata THEN metadata.language ELSE "",
     content |-> content,
     analysis |-> inputType = "code" /\ hasMetadata]

NoPrompt == generateUserPrompt("text", <<>>, FALSE, NoMetadata)

NoBuilt == [raised |-> FALSE, userPrompt |-> NoPrompt,
            hasMetadata |-> FALSE, metadata |-> NoMetadata]

\* if (type === 'code' && fileName)
Analyzes(req) == req.type = "code" /\ req.fileName # NoFileName

buildFromRequest(req, max, babel) ==
    LET truncatedCode == truncateCode(req.content, max)
        metadata == IF Analyzes(req)
                    THEN parseCode(truncatedCode, req.fileName, req.language, babel)
                    ELSE NoMetadata
    IN IF metadata.raised THEN [NoBuilt EXCEPT !.raised = TRUE]
       ELSE [raised |-> FALSE,
             userPrompt |-> generateUserPrompt(req.type,
                                IF req.type = "code" THEN truncatedCode
                                ELSE req.content,
                                Analyzes(req), metadata),
             hasMetadata |-> Analyzes(req),
             metadata |-> metadata]

Requests == [type : {"code", "text"},
             content : SeqsUpTo({LF, Word, DQ}, MaxContentLen),
             fileName : {NoFileName, <<"m", ".", "p", "y">>, <<"m", ".", "T", "S">>,
                         <<"m", "k">>},
             language : {NoHint, "python"}]

NoRequest == [type |-> "text", content |-> <<>>, fileName |-> NoFileName,
              language |-> NoHint]

ParserAnswers ==
    {ParseThrows, [threw |-> FALSE, nodes |-> <<>>],
     [threw |-> FALSE,
      nodes |-> <<[kind |-> "ClassDeclaration", hasId |-> TRUE, loc |-> NoLoc]>>]}

PromptIdle ==
    /\ request = NoRequest /\ maxCodeLength = 0 /\ parser = NoAst
    /\ qstate = "idle" /\ truncated = <<>> /\ built = NoBuilt
    /\ analyzerCalls = <<>>

PromptInit ==
    /\ request \in Requests
    /\ maxCodeLength \in 0..MaxMaxCodeLength
    /\ parser \in (IF Analyzes(request) /\ IsJs(request.language, request.fileName)
                   THEN ParserAnswers ELSE {NoAst})
    /\ qstate = "input"
    /\ truncated = <<>>
    /\ built = NoBuilt
    /\ analyzerCalls = <<>>

CallTruncateCode ==
    /\ qstate = "input"
    /\ truncated' = truncateCode(request.content, maxCodeLength)
    /\ qstate' = "truncated"
    /\ UNCHANGED <<request, maxCodeLength, parser, built, analyzerCalls>>
    /\ UNCHANGED <<streamVars, tokenVars, parseVars, blockVars, mockVars, callVars,
                   signVars, unitVars>>

CallBuildFromRequest ==
    /\ qstate = "input"
    /\ built' = buildFromRequest(request, maxCodeLength, parser)
    /\ analyzerCalls' = IF Analyzes(request)
                        THEN <<truncateCode(request.content, maxCodeLength)>>
                        ELSE <<>>
    /\ qstate' = "built"
    /\ UNCHANGED <<request, maxCodeLength, parser, truncated>>
    /\ UNCHANGED <<streamVars, tokenVars, parseVars, blockVars, mockVars, callVars,
                   signVars, unitVars>>

PromptNext == CallTruncateCode \/ CallBuildFromRequest

-----------------------------------------------------------------------------
(* MockDocGenerator.generateStream *)

MaxMockLen == 4         \* code units of a mock text

DocTypes == {"requirements", "design", "api", "test"}

\* UTF-16 code units: plain characters and the two halves of a surrogate pair
HighSurrogate == "\\uD83D"
LowSurrogate == "\\uDE00"
CodeUnits == {Word, Sp, LF, HighSurrogate, LowSurrogate}

\* a surrogate half never stands alone in a text
RECURSIVE WellFormed(_)
WellFormed(text) ==
    IF text = <<>> THEN TRUE
    ELSE IF Head(text) = HighSurrogate
    THEN Len(text) >= 2 /\ text[2] = LowSurrogate /\ WellFormed(Tail(Tail(text)))
    ELSE Head(text) # LowSurrogate /\ WellFormed(Tail(text))

\* the texts getMockContent can answer
MockContents == {t \in SeqsUpTo(CodeUnits, MaxMockLen) : WellFormed(t)}

\* content.split(' '): the pieces between blanks
RECURSIVE SplitOnBlank(_)
SplitOnBlank(content) ==
    LET blanks == {i \in 1..Len(content) : content[i] = Sp}
    IN IF blanks = {} THEN <<content>>
       ELSE LET b == CHOOSE i \in blanks : \A j \in blanks : i <= j
            IN <<SubSeq(content, 1, b - 1)>>
               \o SplitOnBlank(SubSeq(content, b + 1, Len(content)))

\* content.split(''): one string per code unit
SplitEmpty(content) == [i \in 1..Len(content) |-> <<content[i]>>]

MockIdle ==
    /\ mdocType = "api" /\ mcontent = <<>> /\ mindex = 0 /\ mchunks = <<>>
    /\ mstate = "idle" /\ mresult = <<>>

\* generateStream up to the loop: const content = this.getMockContent(...)
MockInit ==
    /\ mdocType \in DocTypes
    /\ mcontent \in MockContents
    /\ mindex = 0
    /\ mchunks = <<>>
    /\ mstate = "looping"
    /\ mresult = <<>>

\* one turn of the loop: the 10 ms timer fires, then onChunk(word)
MockChunk ==
    /\ mstate = "looping"
    /\ mindex < Len(SplitEmpty(mcontent))
    /\ mindex' = mindex + 1
    /\ mchunks' = Append(mchunks, SplitEmpty(mcontent)[mindex + 1])
    /\ UNCHANGED <<mdocType, mcontent, mstate, mresult>>
    /\ UNCHANGED <<streamVars, tokenVars, parseVars, blockVars, promptVars, callVars,
                   signVars, unitVars>>

\* the loop is over: return { ..., content, ... }
MockReturn ==
    /\ mstate = "looping"
    /\ mindex = Len(SplitEmpty(mcontent))
    /\ mresult' = mcontent
    /\ mstate' = "returned"
    /\ UNCHANGED <<mdocType, mcontent, mindex, mchunks>>
    /\ UNCHANGED <<streamVars, tokenVars, parseVars, blockVars, promptVars, callVars,
                   signVars, unitVars>>

MockNext == MockChunk \/ MockReturn

-----------------------------------------------------------------------------
(* DocGenerator: createLLMAdapter at construction, then one generate or    *)
(* generateStream call, with every network operation it starts.            *)

MaxKeyLen == 5          \* characters of config.apiKey
MaxReads == 2           \* reads of a streamed HTTP body / frames on a socket

Colon == ":"
KeyChar == "k"

\* s.split(':')
RECURSIVE SplitColon(_)
SplitColon(s) ==
    LET colons == {i \in 1..Len(s) : s[i] = Colon}
    IN IF colons = {} THEN <<s>>
       ELSE LET c == CHOOSE i \in colons : \A j \in colons : i <= j
            IN <<SubSeq(s, 1, c - 1)>> \o SplitColon(SubSeq(s, c + 1, Len(s)))

\* config.apiKey.includes(':')
IncludesColon(s) == \E i \in 1..Len(s) : s[i] = Colon

KnownProviders == {"zhipu", "ernie", "xfyun"}

\* an undefined or empty field is the empty string
LLMConfigs == [provider : KnownProviders \cup {"openai"},
               apiKey : SeqsUpTo({KeyChar, Colon}, MaxKeyLen),
               appId : {<<>>, <<KeyChar>>},
               apiSecret : {<<>>, <<KeyChar>>}]

NoAdapter == [kind |-> "none", appId |-> <<>>, apiKey |-> <<>>, apiSecret |-> <<>>]

Adapter(kind, config) ==
    [kind |-> kind, appId |-> config.appId, apiKey |-> config.apiKey,
     apiSecret |-> config.apiSecret]

NoOutcome == [kind |-> "none", error |-> "none", status |-> 0, body |-> "none"]
Result == [NoOutcome EXCEPT !.kind = "result"]
Failure(what) == [NoOutcome EXCEPT !.kind = "error", !.error = what]

\* XfyunSparkAdapter.parseConfig: the adapter, or the thrown error
parseConfig(config) ==
    IF config.appId # <<>> /\ config.apiKey # <<>> /\ config.apiSecret # <<>>
    THEN [threw |-> FALSE, adapter |-> Adapter("xfyun", config)]
    ELSE IF config.apiKey # <<>> /\ IncludesColon(config.apiKey)
    THEN LET parts == SplitColon(config.apiKey)
         IN IF Len(parts) # 3 THEN [threw |-> TRUE, adapter |-> NoAdapter]
            ELSE [threw |-> FALSE,
                  adapter |-> [kind |-> "xfyun", appId |-> parts[1],
                               apiKey |-> parts[2], apiSecret |-> parts[3]]]
    ELSE [threw |-> TRUE, adapter |-> NoAdapter]

\* a factory that falls back to Backend A for an unknown provider tag
CreateOrDefault(config, module) ==
    IF config.provider = "xfyun" THEN parseConfig(config)
    ELSE IF config.provider = "ernie" /\ module = "bearer" /\ config.apiKey = <<>>
    THEN [threw |-> TRUE, adapter |-> NoAdapter]
    ELSE IF config.provider = "ernie"
    THEN [threw |-> FALSE,
          adapter |-> Adapter(IF module = "bearer" THEN "ernie" ELSE "ernieOAuth",
                              config)]
    ELSE [threw |-> FALSE, adapter |-> Adapter("zhipu", config)]

\* createLLMAdapter with the constructors it calls
createLLMAdapter(config, module) ==
    IF config.provider = "zhipu"
    THEN [threw |-> FALSE, adapter |-> Adapter("zhipu", config)]
    ELSE IF config.provider = "ernie"
    THEN IF module = "bearer" /\ config.apiKey = <<>>
         THEN [threw |-> TRUE, adapter |-> NoAdapter]
         ELSE [threw |-> FALSE,
               adapter |-> Adapter(IF module = "bearer" THEN "ernie"
                                   ELSE "ernieOAuth", config)]
    ELSE IF config.provider = "xfyun" THEN parseConfig(config)
    ELSE [threw |-> TRUE, adapter |-> NoAdapter]

\* getAccessToken: const [apiKey, secretKey] = this.config.apiKey.split(':')
KeyPairResolves(key) ==
    LET parts == SplitColon(key)
    IN Len(parts) >= 2 /\ parts[1] # <<>> /\ parts[2] # <<>>

NoNet == [adapterCalls |-> 0, exchanges |-> 0, requests |-> 0, sockets |-> 0,
          reads |-> 0, chunks |-> 0]

NoHttpResponse == [status |-> 0, body |-> "none"]

\* body: a completion, an embedded error object, or text that is not JSON
Responses == [status : {200, 401, 503}, body : {"json", "errjson", "text"}]

ResponseOk(resp) == resp.status >= 200 /\ resp.status <= 299

\* the error of a failed request that names neither status nor body
HttpErrorBare(resp) == Failure("http")

\* throw new Error(`...: ${response.status} - ${error}`)
HttpError(resp) ==
    [Failure("http") EXCEPT !.status = resp.status, !.body = resp.body]

CallIdle ==
    /\ llmConfig = [provider |-> "zhipu", apiKey |-> <<>>, appId |-> <<>>,
                    apiSecret |-> <<>>]
    /\ ernieModule = "bearer" /\ streaming = FALSE /\ adapter = NoAdapter
    /\ gstate = "idle" /\ net = NoNet /\ response = NoHttpResponse
    /\ sock = "NONE" /\ gtimer = "none" /\ hasContent = FALSE
    /\ failureSeen = FALSE /\ outcome = NoOutcome

CallInit ==
    /\ llmConfig \in LLMConfigs
    /\ ernieModule \in {"bearer", "oauth"}
    /\ llmConfig.provider # "ernie" => ernieModule = "bearer"
    /\ streaming \in BOOLEAN
    /\ adapter = NoAdapter
    /\ gstate = "new" /\ net = NoNet /\ response = NoHttpResponse
    /\ sock = "NONE" /\ gtimer = "none" /\ hasContent = FALSE
    /\ failureSeen = FALSE /\ outcome = NoOutcome

Bump(field) == [net EXCEPT ![field] = @ + 1]

Pending == outcome.kind = "none"

\* resolve / reject / return / throw: only the first one settles the call
Settled(o) == IF Pending THEN o ELSE outcome

callRest == <<streamVars, tokenVars, parseVars, blockVars, promptVars, mockVars,
              signVars, unitVars>>

\* new DocGenerator({ llmConfig }): this.llmAdapter = createLLMAdapter(...)
Construct ==
    /\ gstate = "new"
    /\ LET made == createLLMAdapter(llmConfig, ernieModule)
       IN /\ adapter' = made.adapter
          /\ gstate' = IF made.threw THEN "failed" ELSE "ready"
          /\ outcome' = IF made.threw THEN Failure("config") ELSE outcome
    /\ UNCHANGED <<llmConfig, ernieModule, streaming, net, response, sock,
                   gtimer, hasContent, failureSeen, callRest>>

\* generate / generateStream on Backend A or B (Bearer): up to the fetch
GenerateHttp ==
    /\ gstate = "ready" /\ adapter.kind \in {"zhipu", "ernie"}
    /\ net' = [net EXCEPT !.adapterCalls = @ + 1, !.requests = @ + 1]
    /\ gstate' = "requesting"
    /\ UNCHANGED <<llmConfig, ernieModule, streaming, adapter, response, sock,
                   gtimer, hasContent, failureSeen, outcome, callRest>>

\* the same on Backend B (OAuth): getAccessToken up to its fetch or its throw
GenerateOAuth ==
    /\ gstate = "ready" /\ adapter.kind = "ernieOAuth"
    /\ IF KeyPairResolves(adapter.apiKey)
       THEN /\ net' = [net EXCEPT !.adapterCalls = @ + 1, !.exchanges = @ + 1]
            /\ gstate' = "exchanging"
            /\ outcome' = outcome
       ELSE /\ net' = Bump("adapterCalls")
            /\ gstate' = "failed"
            /\ outcome' = Failure("config")
    /\ UNCHANGED <<llmConfig, ernieModule, streaming, adapter, response, sock,
                   gtimer, hasContent, failureSeen, callRest>>

\* the same on Backend C: new Promise, import('ws') pending
GenerateXfyun ==
    /\ gstate = "ready" /\ adapter.kind = "xfyun"
    /\ net' = Bump("adapterCalls")
    /\ gstate' = "importing"
    /\ UNCHANGED <<llmConfig, ernieModule, streaming, adapter, response, sock,
                   gtimer, hasContent, failureSeen, outcome, callRest>>

\* the token endpoint answers; with a token the model request is sent
ExchangeResponds ==
    /\ gstate = "exchanging"
    /\ \E answer \in {"ok", "notok", "neterr"} :
         IF answer = "ok"
         THEN /\ net' = Bump("requests")
              /\ gstate' = "requesting"
              /\ UNCHANGED <<failureSeen, outcome>>
         ELSE /\ gstate' = "failed"
              /\ failureSeen' = TRUE
              /\ outcome' = Failure(IF answer = "notok" THEN "token" ELSE "network")
              /\ net' = net
    /\ UNCHANGED <<llmConfig, ernieModule, streaming, adapter, response, sock,
                   gtimer, hasContent, callRest>>

\* what generateDoc makes of a 2xx response
ParsedBody(kind, resp) ==
    IF resp.body = "text" THEN Failure("parse")
    ELSE IF resp.body = "json" THEN Result
    ELSE IF kind = "zhipu" THEN Failure("type")
    ELSE Failure("api")

\* fetch rejects: the request never got a response
FetchFails ==
    /\ gstate = "requesting"
    /\ gstate' = "failed"
    /\ failureSeen' = TRUE
    /\ outcome' = Failure("network")
    /\ UNCHANGED <<llmConfig, ernieModule, streaming, adapter, net, response,
                   sock, gtimer, hasContent, callRest>>

\* fetch resolves: if (!response.ok) throw; else parse, or start streaming
FetchResponds ==
    /\ gstate = "requesting"
    /\ \E resp \in Responses :
         /\ response' = resp
         /\ IF ~ResponseOk(resp)
            THEN /\ gstate' = "failed" /\ failureSeen' = TRUE
                 /\ outcome' = HttpError(resp)
            ELSE IF streaming
            THEN /\ gstate' = "streaming" /\ UNCHANGED <<failureSeen, outcome>>
            ELSE /\ outcome' = ParsedBody(adapter.kind, resp)
                 /\ failureSeen' = (outcome'.kind = "error")
                 /\ gstate' = IF outcome'.kind = "error" THEN "failed" ELSE "done"
    /\ UNCHANGED <<llmConfig, ernieModule, streaming, adapter, net, sock,
                   gtimer, hasContent, callRest>>

\* one reader.read() with its frames: a delta, an unparsable frame, an
\* embedded error object, or a rejected read
StreamRead ==
    /\ gstate = "streaming" /\ net.reads < MaxReads
    /\ \E ev \in {"delta", "junk", "errjson", "readerr"} :
         /\ net' = [net EXCEPT !.reads = @ + 1,
                               !.chunks = IF ev = "delta" THEN @ + 1 ELSE @]
         /\ hasContent' = (hasContent \/ ev = "delta")
         /\ IF ev = "readerr" \/ (ev = "errjson" /\ adapter.kind # "zhipu")
            THEN /\ gstate' = "failed" /\ failureSeen' = TRUE
                 /\ outcome' = Failure(IF ev = "readerr" THEN "network" ELSE "api")
            ELSE UNCHANGED <<gstate, failureSeen, outcome>>
    /\ UNCHANGED <<llmConfig, ernieModule, streaming, adapter, response, sock,
                   gtimer, callRest>>

\* reader.read() answers done: return { content: fullContent, usage }
StreamDone ==
    /\ gstate = "streaming"
    /\ net' = Bump("reads")
    /\ gstate' = "done"
    /\ outcome' = Result
    /\ UNCHANGED <<llmConfig, ernieModule, streaming, adapter, response, sock,
                   gtimer, hasContent, failureSeen, callRest>>

\* import('ws') settles: new WebSocket(url) and the timer, or .catch(reject)
ImportWs ==
    /\ gstate = "importing"
    /\ \E loaded \in BOOLEAN :
         IF loaded
         THEN /\ net' = Bump("sockets")
              /\ sock' = "CONNECTING" /\ gtimer' = "armed" /\ gstate' = "socket"
              /\ UNCHANGED <<failureSeen, outcome>>
         ELSE /\ gstate' = "failed" /\ failureSeen' = TRUE
              /\ outcome' = Failure("import")
              /\ UNCHANGED <<net, sock, gtimer>>
    /\ UNCHANGED <<llmConfig, ernieModule, streaming, adapter, response,
                   hasContent, callRest>>

\* ws.on('open'): the request message is sent
SocketOpen ==
    /\ gstate = "socket" /\ sock = "CONNECTING"
    /\ sock' = "OPEN"
    /\ UNCHANGED <<llmConfig, ernieModule, streaming, adapter, gstate, net,
                   response, gtimer, hasContent, failureSeen, outcome, callRest>>

\* ws.on('message'): an unparsable frame, an error frame, text, the final frame
SocketMessage ==
    /\ gstate = "socket" /\ sock = "OPEN" /\ net.reads < MaxReads
    /\ \E ev \in {"junk", "errframe", "delta", "final"} :
         /\ net' = [net EXCEPT !.reads = @ + 1,
                               !.chunks = IF ev = "delta" THEN @ + 1 ELSE @]
         /\ hasContent' = (hasContent \/ ev = "delta")
         /\ sock' = IF ev \in {"errframe", "final"} THEN "CLOSING" ELSE sock
         /\ outcome' = IF ev = "errframe" THEN Settled(Failure("api"))
                       ELSE IF ev = "final" THEN Settled(Result)
                       ELSE outcome
         /\ failureSeen' = (failureSeen \/ (Pending /\ ev = "errframe"))
    /\ UNCHANGED <<llmConfig, ernieModule, streaming, adapter, gstate, response,
                   gtimer, callRest>>

\* ws.on('error')
SocketError ==
    /\ gstate = "socket" /\ sock \in {"CONNECTING", "OPEN"}
    /\ sock' = "CLOSING"
    /\ outcome' = Settled(Failure("socket"))
    /\ failureSeen' = (failureSeen \/ Pending)
    /\ UNCHANGED <<llmConfig, ernieModule, streaming, adapter, gstate, net,
                   response, gtimer, hasContent, callRest>>

\* ws.on('close'): rejects only if nothing was received
SocketClose ==
    /\ gstate = "socket" /\ sock \in {"OPEN", "CLOSING"}
    /\ sock' = "CLOSED"
    /\ outcome' = IF hasContent THEN outcome ELSE Settled(Failure("closed"))
    /\ failureSeen' = (failureSeen \/ Pending)
    /\ UNCHANGED <<llmConfig, ernieModule, streaming, adapter, gstate, net,
                   response, gtimer, hasContent, callRest>>

\* the setTimeout callback: acts only on an OPEN socket
SocketTimeout ==
    /\ gstate = "socket" /\ gtimer = "armed"
    /\ gtimer' = "fired"
    /\ sock' = IF sock = "OPEN" THEN "CLOSING" ELSE sock
    /\ outcome' = IF sock = "OPEN" THEN Settled(Failure("timeout")) ELSE outcome
    /\ failureSeen' = (failureSeen \/ Pending)
    /\ UNCHANGED <<llmConfig, ernieModule, streaming, adapter, gstate, net,
                   response, hasContent, callRest>>

CallNext ==
    \/ Construct
    \/ GenerateHttp \/ GenerateOAuth \/ GenerateXfyun
    \/ ExchangeResponds \/ FetchFails \/ FetchResponds
    \/ StreamRead \/ StreamDone
    \/ ImportWs \/ SocketOpen \/ SocketMessage \/ SocketError \/ SocketClose
    \/ SocketTimeout

\* the call can make no further step
Quiescent ==
    \/ gstate \in {"failed", "done"}
    \/ gstate = "socket" /\ sock = "CLOSED" /\ gtimer = "fired"

NoNetworkCall ==
    net.exchanges = 0 /\ net.requests = 0 /\ net.sockets = 0 /\ net.reads = 0

-----------------------------------------------------------------------------
(* XfyunSparkAdapter.createAuthUrl: the signed URL of the WebSocket.  Texts *)
(* are sequences of their parts; digest, base64 and percent-encoding are    *)
(* kept as terms over their arguments.                                      *)

MaxSignTicks == 3       \* the clock stops here
MaxSigns == 2           \* computations of createAuthUrl in one run
TicksPerSec == 2        \* clock ticks in one second

SparkOrigin == "wss://spark-api.xf-yun.com"
SparkHost == "spark-api.xf-yun.com"

\* config.model: undefined, a known model, a name the maps do not hold
SparkModels == {"", "spark-pro", "gpt"}

SignConfigs == [model : SparkModels, appId : {"a1", "a2"},
                apiKey : {"k1", "k2"}, apiSecret : {"s1", "s2"}]

\* urlMap[model] || urlMap['spark-lite'], with model = config.model || 'spark-lite'
getWsUrl(config) ==
    LET model == IF config.model = "" THEN "spark-lite" ELSE config.model
    IN CASE model = "spark-lite" -> <<SparkOrigin, "/v1.1/chat">>
         [] model = "spark-pro" -> <<SparkOrigin, "/v3.1/chat">>
         [] model = "spark-max" -> <<SparkOrigin, "/v3.5/chat">>
         [] model = "spark-ultra" -> <<SparkOrigin, "/v4.0/chat">>
         [] OTHER -> <<SparkOrigin, "/v1.1/chat">>

\* text.replace('wss://spark-api.xf-yun.com', ''): the first occurrence
ReplaceOrigin(text) ==
    IF \E i \in 1..Len(text) : text[i] = SparkOrigin
    THEN LET first == CHOOSE i \in 1..Len(text) :
                          /\ text[i] = SparkOrigin
                          /\ \A j \in 1..(i - 1) : text[j] # SparkOrigin
         IN SubSeq(text, 1, first - 1) \o SubSeq(text, first + 1, Len(text))
    ELSE text

\* new Date().toUTCString(): the text names the second, not the tick
ToUTCString(tick) == [utc |-> tick \div TicksPerSec]

\* crypto.createHmac('sha256', key).update(text).digest('base64')
HmacSha256Base64(key, text) == [hmac |-> "sha256", key |-> key, text |-> text]

\* Buffer.from(text).toString('base64')
Base64(text) == [base64 |-> text]

EncodeURIComponent(text) == [uri |-> text]

\* the signature alone
SignatureOf(config, tick) ==
    LET path == ReplaceOrigin(getWsUrl(config))
        date == ToUTCString(tick)
        signatureOrigin == <<"host: ", SparkHost, "\ndate: ", date, "\nGET ">>
                           \o path \o <<" HTTP/1.1">>
    IN HmacSha256Base64(config.apiSecret, signatureOrigin)

\* a signed URL that also names the application
CreateAuthUrlWithAppId(config, tick) ==
    LET authorizationOrigin ==
            <<"app_id=", config.appId, "api_key=", config.apiKey,
              "algorithm=hmac-sha256", "headers=host date request-line",
              "signature=", SignatureOf(config, tick)>>
    IN [url |-> getWsUrl(config),
        authorization |-> EncodeURIComponent(Base64(authorizationOrigin)),
        date |-> EncodeURIComponent(ToUTCString(tick)),
        host |-> EncodeURIComponent(SparkHost)]

createAuthUrl(config, tick) ==
    LET authorizationOrigin ==
            <<"api_key=", config.apiKey,
              "algorithm=hmac-sha256", "headers=host date request-line",
              "signature=", SignatureOf(config, tick)>>
    IN [url |-> getWsUrl(config),
        authorization |-> EncodeURIComponent(Base64(authorizationOrigin)),
        date |-> EncodeURIComponent(ToUTCString(tick)),
        host |-> EncodeURIComponent(SparkHost)]

NoSigner == [model |-> "", appId |-> "a1", apiKey |-> "k1", apiSecret |-> "s1"]

SignIdle == signer = <<NoSigner, NoSigner>> /\ sclock = 0 /\ signed = <<>>

SignInit == signer \in [1..2 -> SignConfigs] /\ sclock = 0 /\ signed = <<>>

signRest == <<streamVars, tokenVars, parseVars, blockVars, promptVars, mockVars,
              callVars, unitVars>>

\* time passes
SignTick ==
    /\ sclock < MaxSignTicks
    /\ sclock' = sclock + 1
    /\ UNCHANGED <<signer, signed, signRest>>

\* const url = this.createAuthUrl()  in one of the adapters
CallCreateAuthUrl ==
    /\ Len(signed) < MaxSigns
    /\ \E who \in 1..2 :
         signed' = Append(signed,
                          [who |-> who, tick |-> sclock,
                           signature |-> SignatureOf(signer[who], sclock),
                           url |-> createAuthUrl(signer[who], sclock)])
    /\ UNCHANGED <<signer, sclock, signRest>>

SignNext == SignTick \/ CallCreateAuthUrl

-----------------------------------------------------------------------------
(* extractClassMethods and extractClassProperties on their own: the         *)
(* visibility of one method name, the properties of one class block.        *)

MaxNameLen == 5         \* characters of a method name
MaxBodyLines == 4       \* lines of a class block after its header

Underscore == "_"

\* \w+ over an alphabet of the underscore and one letter
MethodNames == SeqsUpTo({Underscore, "a"}, MaxNameLen) \ {<<>>}

\* the lines of a class block below its header: a method header or a
\* statement behind four or eight blanks
BodyLines == {Spaces(k) \o <<tok>> :
                k \in {4, 8},
                tok \in {DefInit, DefTok, AsyncDefTok, SelfX, SelfY, ClassProp}}

ClassBodies == {<<<<ClassTok>>>> \o b : b \in SeqsUpTo(BodyLines, MaxBodyLines)}

UnitIdle ==
    /\ uname = <<>> /\ uvisibility = "none" /\ ubody = <<>>
    /\ uproperties = <<>> /\ ustate = "idle"

VisibilityInit ==
    /\ uname \in MethodNames /\ uvisibility = "none" /\ ubody = <<>>
    /\ uproperties = <<>> /\ ustate = "input"

PropertiesInit ==
    /\ uname = <<>> /\ uvisibility = "none" /\ ubody \in ClassBodies
    /\ uproperties = <<>> /\ ustate = "input"

unitRest == <<streamVars, tokenVars, parseVars, blockVars, promptVars, mockVars,
              callVars, signVars>>

\* the visibility test of extractClassMethods on one name
ClassifyMethod ==
    /\ ustate = "input" /\ uname # <<>>
    /\ uvisibility' = Visibility(uname)
    /\ ustate' = "done"
    /\ UNCHANGED <<uname, ubody, uproperties, unitRest>>

VisibilityNext == ClassifyMethod

CallExtractClassProperties ==
    /\ ustate = "input" /\ ubody # <<>>
    /\ uproperties' = ExtractClassProperties(ubody)
    /\ ustate' = "done"
    /\ UNCHANGED <<uname, uvisibility, ubody, unitRest>>

PropertiesNext == CallExtractClassProperties

-----------------------------------------------------------------------------
(* The specifications.  Each runs one subsystem; the others stay as built.  *)

StreamIdle ==
    /\ provider = "none" /\ frames = <<>> /\ wire = <<>> /\ phase = "done"
    /\ promise = "pending" /\ result = NoResult /\ error = "none"
    /\ fullContent = "" /\ usage = NoUsage /\ delivered = <<>> /\ late = 0
    /\ readyState = "NONE" /\ arrived = <<>> /\ nframes = 0
    /\ finalSeen = FALSE /\ inbound = FALSE /\ clock = 0 /\ timer = "none"
    /\ atTimeout = NoTimeout

TokenIdle == TokenInit /\ credsOk

PipelineIdle == PromptIdle /\ MockIdle /\ CallIdle /\ SignIdle /\ UnitIdle

\* the adapters and the analyzer as built, nothing running
CoreIdle == StreamIdle /\ TokenIdle /\ ParseIdle /\ BlockIdle

InitStream == StreamInit /\ TokenIdle /\ ParseIdle /\ BlockIdle /\ PipelineIdle

SpecStream == InitStream /\ [][StreamNext]_vars

\* the same system where what the runtime guarantees does happen: the import
\* settles, time passes, a due timer fires, a socket that is closing closes
StreamFairness ==
    /\ WF_vars(LoadWs) /\ WF_vars(Tick) /\ WF_vars(Timeout) /\ WF_vars(WsClose)

SpecStreamLive == InitStream /\ [][StreamNext]_vars /\ StreamFairness

InitToken == TokenInit /\ StreamIdle /\ ParseIdle /\ BlockIdle /\ PipelineIdle

SpecToken == InitToken /\ [][TokenNext]_vars

InitParse == ParseInit /\ StreamIdle /\ TokenIdle /\ BlockIdle /\ PipelineIdle

SpecParse == InitParse /\ [][ParseNext]_vars

InitBlock == BlockInit /\ StreamIdle /\ TokenIdle /\ ParseIdle /\ PipelineIdle

SpecBlock == InitBlock /\ [][BlockNext]_vars

InitPrompt == PromptInit /\ CoreIdle /\ MockIdle /\ CallIdle /\ SignIdle /\ UnitIdle

SpecPrompt == InitPrompt /\ [][PromptNext]_vars

InitMock == MockInit /\ CoreIdle /\ PromptIdle /\ CallIdle /\ SignIdle /\ UnitIdle

SpecMock == InitMock /\ [][MockNext]_vars

InitCall == CallInit /\ CoreIdle /\ PromptIdle /\ MockIdle /\ SignIdle /\ UnitIdle

SpecCall == InitCall /\ [][CallNext]_vars

InitSign == SignInit /\ CoreIdle /\ PromptIdle /\ MockIdle /\ CallIdle /\ UnitIdle

SpecSign == InitSign /\ [][SignNext]_vars

PipelineRest == PromptIdle /\ MockIdle /\ CallIdle /\ SignIdle

InitVisibility == VisibilityInit /\ CoreIdle /\ PipelineRest

SpecVisibility == InitVisibility /\ [][VisibilityNext]_vars

InitClassProperties == PropertiesInit /\ CoreIdle /\ PipelineRest

SpecProperties == InitClassProperties /\ [][PropertiesNext]_vars

-----------------------------------------------------------------------------
(* Claims about the streaming adapters, checked under SpecStream *)

Contents(fs) == [i \in 1..Len(fs) |-> fs[i].content]

DeltaBodyWithTerminator(fs) ==
    /\ Len(fs) >= 2
    /\ fs[Len(fs)] = DoneFrame
    /\ \A i \in 1..(Len(fs) - 1) : fs[i].kind = "data" /\ fs[i].content # ""

(* C1: Backend A, for a body of `data: ` frames each carrying a delta text  *)
(* and followed by the [DONE] frame, the returned content is the            *)
(* concatenation of the delta texts in frame order.                         *)
C1_ContentIsConcatOfDeltas ==
    (provider = "zhipu" /\ promise = "resolved" /\ DeltaBodyWithTerminator(frames))
        => result.content = Concat(Contents(frames))

(* C2: chunks reach onChunk in the arrival order of the frames that carried *)
(* them, the accumulated text is always the concatenation of the chunks     *)
(* passed to onChunk so far, and the content of the returned LLMResponse is *)
(* the concatenation of the chunks delivered up to the return.              *)
C2_ChunksInArrivalOrder ==
    /\ fullContent = Concat(delivered)
    /\ IsSubseq(delivered, IF IsWs THEN arrived ELSE Contents(frames))
    /\ promise = "resolved"
         => result.content = Concat(SubSeq(delivered, 1, Len(delivered) - late))

C2_Witness ==
    /\ promise = "resolved"
    /\ delivered = <<"Hel", "lo">>
    /\ result.content = "Hello"

(* C3: once the promise of generateDocStream has resolved or rejected,      *)
(* onChunk is never invoked again for that call.                            *)
C3_NoChunkAfterSettle == [][promise # "pending" => delivered' = delivered]_vars

(* C6: when the watchdog fires and no final frame has arrived, the socket   *)
(* is closed and the call rejects with the timeout error, whatever state    *)
(* the socket was in.                                                       *)
C6_WatchdogAlwaysRejects ==
    (timer = "fired" /\ atTimeout.pending /\ ~atTimeout.finalSeen)
        => /\ promise = "rejected" /\ error = "timeout"
           /\ readyState \in {"CLOSING", "CLOSED"}

(* C7: a close event in a call that never accumulated content ends the call *)
(* in a rejection, never in a successful response with empty content.       *)
C7_CloseWithoutContentRejects ==
    (IsWs /\ readyState = "CLOSED" /\ fullContent = "") => promise = "rejected"

\* the line is a whole frame and JSON.parse accepts it
IsParsedFrame(line) == Head(line) = Prefix /\ JsonParses(Tail(line))

FrameOf(line) == frames[line[2].i]

\* a frame with the embedded error object is parsed in these lines
ErrorParsedIn(ls) ==
    \E k \in 1..Len(ls) : IsParsedFrame(ls[k]) /\ FrameOf(ls[k]).err

\* the texts of the frames parsed before the first embedded error
RECURSIVE TextsBeforeError(_)
TextsBeforeError(ls) ==
    IF ls = <<>> THEN <<>>
    ELSE IF ~IsParsedFrame(Head(ls)) THEN TextsBeforeError(Tail(ls))
    ELSE IF FrameOf(Head(ls)).err THEN <<>>
    ELSE IF FrameOf(Head(ls)).content = "" THEN TextsBeforeError(Tail(ls))
    ELSE <<FrameOf(Head(ls)).content>> \o TextsBeforeError(Tail(ls))

(* C19: Backend B streaming.  As soon as a frame with the provider's        *)
(* embedded error is parsed, generateDocStream rejects with the provider's  *)
(* error; no text of that frame or of a later frame reaches onChunk, no     *)
(* LLMResponse is returned, and the handler that ignores unparsable frames  *)
(* does not swallow the error.                                              *)
C19_EmbeddedErrorShortCircuits ==
    /\ [][provider = "ernie" /\ phase = "read" =>
            LET ls == FilterNonBlank(Split(SubSeq(wire, 1, Len(wire) - Len(wire'))))
            IN ErrorParsedIn(ls) =>
                 /\ promise' = "rejected" /\ error' = "api-error"
                 /\ phase' = "done"
                 /\ result' = NoResult
                 /\ delivered' = delivered \o TextsBeforeError(ls)]_vars
    /\ [][provider = "ernie" /\ error = "api-error" =>
            delivered' = delivered /\ promise' = "rejected" /\ result' = NoResult]_vars

\* a delta was delivered, then the frame with the error and a text of its own
C19_Witness ==
    /\ provider = "ernie" /\ promise = "rejected" /\ error = "api-error"
    /\ delivered # <<>>
    /\ \E i \in 1..Len(frames) :
         frames[i].kind = "data" /\ frames[i].err /\ frames[i].content # ""

(* C24: Backend C generateDocStream always settles: for every sequence of   *)
(* socket events (open, frames of any shape, error, close) and the firing   *)
(* of the 60-second timer the returned promise eventually resolves or       *)
(* rejects; it never stays pending forever, in particular not when the      *)
(* socket closes after some text arrived and before a final frame.          *)
C24_XfyunAlwaysSettles == IsWs => <>(promise # "pending")

\* what the loop makes of the body when one read carries all its lines whole
WholeLineReads ==
    ProcessLines(provider, frames,
                 [fullContent |-> "", usage |-> NoUsage, delivered |-> <<>>,
                  thrown |-> FALSE],
                 FilterNonBlank(Split(Body(frames))))

(* C25: on Backends A and B the streaming result does not depend on how the *)
(* transport partitions the body into reads: every partition, also one that *)
(* splits a frame across two reads, gives the same sequence of onChunk      *)
(* deliveries and the same returned content as reads of whole lines.        *)
C25_PartitionIndependent ==
    IsHttp /\ phase = "done" /\ error \notin {"http-status", "no-stream"} =>
        /\ delivered = WholeLineReads.delivered
        /\ (promise = "resolved") = ~WholeLineReads.thrown
        /\ promise = "resolved" => result.content = WholeLineReads.fullContent

(* C26: Backend C, on every inbound frame whose header code is non-zero the *)
(* adapter closes the socket and the call rejects with the provider's       *)
(* error; the text of that frame is neither appended to the accumulator nor *)
(* forwarded to onChunk, and the call never resolves successfully           *)
(* afterwards.                                                              *)
C26_ErrorFrameRejects ==
    /\ [][\A f \in WsFrames :
            f.kind = "msg" /\ f.code # 0 /\ WsMessage(f) =>
                /\ readyState' \in {"CLOSING", "CLOSED"}
                /\ promise = "pending" => promise' = "rejected" /\ error' = "api-error"
                /\ promise' # "pending"
                /\ promise' = "resolved" => promise = "resolved"
                /\ fullContent' = fullContent
                /\ delivered' = delivered]_vars
    /\ [][IsWs /\ promise = "rejected" => promise' = "rejected" /\ error' = error]_vars

\* a text frame was delivered, then a frame with an error code and a text
C26_Witness ==
    /\ IsWs /\ promise = "rejected" /\ error = "api-error"
    /\ arrived = <<"Hel", "lo">>
    /\ delivered = <<"Hel">>
    /\ fullContent = "Hel"
    /\ readyState = "CLOSED"

\* a frame the handler processes without raising and without an error code
ErrorFree(f) == f.kind = "msg" /\ f.code = 0

(* C27: Backend C, generateDocStream resolves only when a frame with the    *)
(* final status 2 has been received, never on an earlier frame; on that     *)
(* frame it closes the socket and resolves with the concatenation, in       *)
(* arrival order, of the text of all error-free frames up to and including  *)
(* the final one, and with the usage of the last frame that carried any.    *)
C27_ResolvesOnFinalFrameOnly ==
    /\ [][IsWs /\ promise = "pending" /\ promise' = "resolved" =>
            /\ \E f \in WsFrames :
                 ErrorFree(f) /\ f.status = FinalStatus /\ WsMessage(f)
            /\ readyState' \in {"CLOSING", "CLOSED"}
            /\ result'.content = Concat(arrived')
            /\ result'.usage = usage']_vars
    /\ [][\A f \in WsFrames :
            ErrorFree(f) /\ WsMessage(f) =>
                usage' = IF f.usage # NoUsage THEN f.usage ELSE usage]_vars
    /\ [][IsWs /\ usage' # usage =>
            \E f \in WsFrames :
                ErrorFree(f) /\ f.usage # NoUsage /\ WsMessage(f)]_vars
    /\ [](IsWs /\ promise = "resolved" => finalSeen)

\* two text frames, the first with usage figures, the second final without
C27_Witness ==
    /\ IsWs /\ promise = "resolved"
    /\ arrived = <<"Hel", "lo">>
    /\ result.content = "Hello"
    /\ result.usage # NoUsage
    /\ nframes = 2
    /\ readyState = "CLOSED"

-----------------------------------------------------------------------------
(* Claims about the token cache, checked under SpecToken *)

(* C4: a call made within the cached token's validity window sends no       *)
(* credential exchange and reuses the cached token, so two calls one after  *)
(* the other within the window trigger exactly one exchange (the one of the *)
(* call that found no valid token).                                         *)
C4_OneExchangePerWindow ==
    \A c \in Callers :
        cpc[c] = "request" =>
            IF cstart[c].valid
            THEN cexch[c] = 0 /\ ctok[c] = cstart[c].token
            ELSE cexch[c] = 1

C4_Witness ==
    /\ ncalls = 2 /\ Len(issued) = 1
    /\ now > issued[1].at
    /\ \E c \in Callers :
         /\ cpc[c] = "request" /\ cstart[c].valid
         /\ cexch[c] = 0 /\ ctok[c] = 1

(* C5: under every interleaving of concurrent getAccessToken calls the      *)
(* cached (accessToken, tokenExpiry) is the initial empty pair or the token *)
(* and the expiry derived from one and the same exchange response, and      *)
(* every caller receives a token that some exchange returned.               *)
C5_CachePairConsistent ==
    /\ \/ accessToken = NoToken /\ tokenExpiry = 0
       \/ /\ accessToken \in 1..Len(issued)
          /\ \E k \in 0..MaxTicks :
               LET t == k * TickMs
                   r == issued[accessToken]
               IN /\ r.at <= t /\ t <= now
                  /\ tokenExpiry = t + (r.expires_in - SafetyMarginSec) * MsPerSec
    /\ \A c \in Callers : cpc[c] = "request" => ctok[c] \in 1..Len(issued)

C5_Witness ==
    /\ Len(issued) = 2
    /\ accessToken = 1
    /\ \A c \in Callers : cpc[c] = "request" /\ cexch[c] = 1

\* caller c is handed its token in this step
HandedOut(c) == cpc[c] # "request" /\ cpc'[c] = "request"

(* C28: after an exchange completed at time t with declared lifetime L      *)
(* seconds the cached expiry is t + (L - 300) seconds; every call made at   *)
(* or after the cached expiry performs a new exchange before its model      *)
(* request, so no model request is ever sent with a token whose cached      *)
(* expiry had already passed when the token was handed out.                 *)
C28_ExpiredTokenNeverUsed ==
    /\ [][\A c \in Callers :
            cpc[c] = "json" /\ cpc'[c] = "request" =>
                tokenExpiry' = now + (cresp[c].expires_in - SafetyMarginSec) * MsPerSec]_vars
    /\ [](\A c \in Callers :
            cpc[c] = "request" /\ ~cstart[c].valid => cexch[c] = 1)
    /\ [][\A c \in Callers : HandedOut(c) => now' < tokenExpiry']_vars

-----------------------------------------------------------------------------
(* Claims about the structural analyzer, checked under SpecParse *)

StructurallyEmpty(m) ==
    /\ m.classes = <<>> /\ m.functions = <<>> /\ m.interfaces = <<>>
    /\ m.imports = <<>> /\ m.exports = <<>>

\* parsing cannot proceed: the language is unsupported or unrecognized, or
\* the text has unrecoverable syntax
CannotProceed ==
    \/ ~isLanguageSupported(DetectedLanguage(language, fileName))
    \/ ast.threw

(* C8: parseCode never raises, whatever the text, the file name and the     *)
(* language hint; when parsing cannot proceed it returns a CodeMetadata     *)
(* whose classes, functions, interfaces, imports and exports are all empty  *)
(* and whose rawCode is the input text.                                     *)
C8_ParseCodeNeverRaises ==
    pstate = "done" =>
        /\ ~presult.raised
        /\ CannotProceed => StructurallyEmpty(presult) /\ presult.rawCode = code

LinesOrdered(entities) ==
    \A i \in 1..Len(entities) : entities[i].startLine <= entities[i].endLine

(* C9: for any text and any supported language the analysis terminates by   *)
(* returning a CodeMetadata, and every class, function, interface and       *)
(* comment of it has startLine <= endLine.                                  *)
C9_StartLineAtMostEndLine ==
    pstate = "done" /\ isLanguageSupported(DetectedLanguage(language, fileName)) =>
        /\ ~presult.raised
        /\ LinesOrdered(presult.classes)
        /\ LinesOrdered(presult.functions)
        /\ LinesOrdered(presult.interfaces)
        /\ LinesOrdered(presult.comments)

(* C11: analyzing  class Foo(Bar): / def __init__(self): / self.x = 1       *)
(* yields exactly one class, named Foo, with superClass "Bar", exactly one  *)
(* property named x, and exactly one method, named __init__, whose          *)
(* visibility is public.                                                    *)
C11_FooBarScenario ==
    pstate = "done" /\ code = FooBarText
    /\ DetectedLanguage(language, fileName) = "python" =>
        /\ ~presult.raised
        /\ Len(presult.classes) = 1
        /\ presult.classes[1].name = "Foo"
        /\ presult.classes[1].superClass = "Bar"
        /\ Len(presult.classes[1].properties) = 1
        /\ presult.classes[1].properties[1].name = "x"
        /\ Len(presult.classes[1].methods) = 1
        /\ presult.classes[1].methods[1].name = "__init__"
        /\ presult.classes[1].methods[1].visibility = "public"

IsClassDeclaration(n) == n.kind = "ClassDeclaration"
IsFunctionNode(n) == n.kind \in {"FunctionDeclaration", "ArrowFunction"}
IsUnnamed(n) == ~n.hasId

(* C21: every class or function declaration of the analyzed source that    *)
(* has no resolvable name is recorded under the name Anonymous / anonymous  *)
(* rather than dropped, so classes and functions hold as many entries as    *)
(* the walk visits class and function declarations.                         *)
C21_UnnamedDeclarationsAreKept ==
    pstate = "done" /\ IsJs(language, fileName) /\ ~ast.threw =>
        /\ Len(presult.classes) = Len(SelectSeq(ast.nodes, IsClassDeclaration))
        /\ Len(presult.functions) = Len(SelectSeq(ast.nodes, IsFunctionNode))
        /\ \A i \in 1..Len(presult.classes) :
             IsUnnamed(SelectSeq(ast.nodes, IsClassDeclaration)[i])
                => presult.classes[i].name = "Anonymous"

OneBased(entities) ==
    \A i \in 1..Len(entities) : entities[i].startLine >= 1 /\ entities[i].endLine >= 1

InSourceOrder(entities) ==
    \A i \in 1..Len(entities) : \A j \in 1..Len(entities) :
        i < j => entities[i].startLine <= entities[j].startLine

(* C22: in every CodeMetadata returned by the analyzer all line numbers of  *)
(* classes, functions, interfaces and comments are 1-based (>= 1) and each  *)
(* of these collections is in source order: non-decreasing startLine.       *)
C22_LinesOneBasedInSourceOrder ==
    pstate = "done" /\ ~presult.raised =>
        /\ OneBased(presult.classes) /\ InSourceOrder(presult.classes)
        /\ OneBased(presult.functions) /\ InSourceOrder(presult.functions)
        /\ OneBased(presult.interfaces) /\ InSourceOrder(presult.interfaces)
        /\ OneBased(presult.comments) /\ InSourceOrder(presult.comments)

\* the same for Python texts alone, where no syntax tree is involved
C22_PythonCase ==
    DetectedLanguage(language, fileName) = "python" => C22_LinesOneBasedInSourceOrder

-----------------------------------------------------------------------------
(* Claims about extractPythonBlock, checked under SpecBlock *)

(* C10: for every list of lines and every header index whose line has k     *)
(* leading whitespace characters, the block starts with the header, is a    *)
(* contiguous run of the input lines, holds no non-blank line of indent     *)
(* <= k other than the header, and ends just before the first later         *)
(* non-blank line of indent <= k, or at the end of the input.               *)
C10_BlockIsIndentedRun ==
    bstate = "done" =>
        LET k == Indent(blines[bstart + 1])
            n == Len(bresult)
            last == bstart + n
        IN /\ n >= 1
           /\ bresult[1] = blines[bstart + 1]
           /\ last <= Len(blines)
           /\ bresult = SubSeq(blines, bstart + 1, last)
           /\ \A i \in 2..n : ~IsBlank(bresult[i]) => Indent(bresult[i]) > k
           /\ \/ last = Len(blines)
              \/ ~IsBlank(blines[last + 1]) /\ Indent(blines[last + 1]) <= k

\* an indented header whose block holds a blank line and a deeper line and is
\* ended by a line at the header's own indent
C10_Witness ==
    /\ bstate = "done"
    /\ Indent(blines[bstart + 1]) >= 1
    /\ ~IsBlank(blines[bstart + 1])
    /\ Len(bresult) >= 3
    /\ \E i \in 2..Len(bresult) : IsBlank(bresult[i])
    /\ \E i \in 2..Len(bresult) : ~IsBlank(bresult[i])
    /\ bstart + Len(bresult) < Len(blines)
    /\ Indent(blines[bstart + Len(bresult) + 1]) = Indent(blines[bstart + 1])

-----------------------------------------------------------------------------
(* Claims about the PromptBuilder, checked under SpecPrompt *)

(* C12: for every code longer than the configured maximum, the truncated    *)
(* text is at most max + length of the marker long and ends exactly with    *)
(* the marker, and the part before the marker is a prefix of the code.      *)
C12_TruncationBounded ==
    qstate = "truncated" /\ Len(request.content) > maxCodeLength =>
        /\ Len(truncated) <= maxCodeLength + Len(Marker)
        /\ EndsWith(truncated, Marker)
        /\ StartsWith(request.content,
                      SubSeq(truncated, 1, Len(truncated) - Len(Marker)))

\* a code cut back to its last newline before the limit
C12_Witness ==
    /\ qstate = "truncated"
    /\ Len(request.content) > maxCodeLength
    /\ Len(truncated) < maxCodeLength + Len(Marker)
    /\ Len(truncated) > Len(Marker)

(* C20: for every code-typed request, with or without a file name, build    *)
(* truncates the content and invokes the analyzer exactly once, on the      *)
(* truncated text, and the BuiltPrompt carries the resulting CodeMetadata,  *)
(* whose raw text is the code embedded in the user payload; for every       *)
(* text-typed request the analyzer is not invoked and no metadata is        *)
(* attached.                                                                *)
C20_AnalyzerCalledOncePerCodeRequest ==
    qstate = "built" =>
        /\ request.type = "code" =>
             /\ analyzerCalls = <<truncateCode(request.content, maxCodeLength)>>
             /\ ~built.raised
             /\ built.hasMetadata
             /\ built.metadata.rawCode = built.userPrompt.content
             /\ built.userPrompt.content =
                    truncateCode(request.content, maxCodeLength)
        /\ request.type = "text" =>
             /\ analyzerCalls = <<>>
             /\ ~built.hasMetadata

-----------------------------------------------------------------------------
(* Claims about the mock generator, checked under SpecMock *)

(* C13: concatenating, in delivery order, all chunks that generateStream    *)
(* passes to onChunk gives exactly the content of the GenerateResult it     *)
(* returns, and every chunk is delivered before the result is returned.     *)
C13_MockChunksConcatToContent ==
    /\ mstate = "returned" => Flatten(mchunks) = mresult
    /\ mstate = "returned" => ~ENABLED MockChunk

\* a returned text with a blank and a surrogate pair, delivered unit by unit
C13_Witness ==
    /\ mstate = "returned"
    /\ Len(mchunks) = MaxMockLen
    /\ \E i \in 1..Len(mchunks) : mchunks[i] = <<Sp>>
    /\ \E i \in 1..Len(mchunks) : mchunks[i] = <<HighSurrogate>>

-----------------------------------------------------------------------------
(* Claims about configuration and failure handling, checked under SpecCall *)

ConfigError == Failure("config")

(* C14: with a provider tag that is not one of the three known tags,        *)
(* creation fails with a configuration error before any network call (HTTP  *)
(* request, token exchange or socket open) is attempted.                    *)
C14_UnknownProviderFailsAtCreation ==
    llmConfig.provider \notin KnownProviders /\ gstate # "idle" =>
        /\ gstate \in {"new", "failed"}
        /\ gstate = "failed" => outcome = ConfigError
        /\ adapter = NoAdapter
        /\ net = NoNet

C14_Witness ==
    /\ llmConfig.provider \notin KnownProviders
    /\ llmConfig.apiKey # <<>>
    /\ gstate = "failed"
    /\ outcome = ConfigError

\* the joined form  APPID:APIKey:APISecret  with three non-empty parts
TripleResolves(key) ==
    LET parts == SplitColon(key)
    IN Len(parts) = 3 /\ \A i \in 1..3 : parts[i] # <<>>

FieldsResolve(config) ==
    config.appId # <<>> /\ config.apiKey # <<>> /\ config.apiSecret # <<>>

\* credentials missing or malformed for the backend the config names
BadCredentials ==
    \/ llmConfig.provider = "zhipu" /\ llmConfig.apiKey = <<>>
    \/ llmConfig.provider = "ernie" /\ ernieModule = "bearer"
       /\ llmConfig.apiKey = <<>>
    \/ llmConfig.provider = "ernie" /\ ernieModule = "oauth"
       /\ ~KeyPairResolves(llmConfig.apiKey)
    \/ llmConfig.provider = "xfyun"
       /\ ~FieldsResolve(llmConfig) /\ ~TripleResolves(llmConfig.apiKey)

(* C15: for all three backends, when the supplied credentials are missing   *)
(* or malformed, creating or calling the adapter ends in a configuration    *)
(* error and no network call is ever started for that call.                 *)
C15_BadCredentialsFailFast ==
    BadCredentials /\ gstate # "idle" =>
        /\ gstate \in {"new", "ready", "failed"}
        /\ gstate = "failed" => outcome = ConfigError
        /\ NoNetworkCall

(* C16: Backend C construction resolves the credentials from the three      *)
(* separate fields or from one colon-joined triple in apiKey; if neither    *)
(* form gives three non-empty values it throws before any network attempt,  *)
(* and if it succeeds appId, apiKey and apiSecret are all non-empty.        *)
C16_XfyunCredentialsResolve ==
    llmConfig.provider = "xfyun" /\ gstate \notin {"idle", "new"} =>
        /\ ~FieldsResolve(llmConfig) /\ ~TripleResolves(llmConfig.apiKey) =>
             gstate = "failed" /\ outcome = ConfigError /\ NoNetworkCall
        /\ adapter.kind = "xfyun" =>
             adapter.appId # <<>> /\ adapter.apiKey # <<>> /\ adapter.apiSecret # <<>>

(* C17: no retries.  In one call the adapter is invoked once and starts at  *)
(* most one model request (plus at most one credential exchange on Backend  *)
(* B, at most one socket on Backend C); after the first transport or        *)
(* protocol failure no further network operation is started, and the        *)
(* failure ends the call as its error, with no GenerateResult produced.     *)
C17_NoRetries ==
    /\ [](/\ net.adapterCalls <= 1 /\ net.requests <= 1
          /\ net.exchanges <= 1 /\ net.sockets <= 1
          /\ failureSeen => outcome.kind # "result"
          /\ failureSeen /\ Quiescent => outcome.kind = "error")
    /\ [][failureSeen =>
            /\ net'.requests = net.requests
            /\ net'.exchanges = net.exchanges
            /\ net'.sockets = net.sockets]_vars

(* C18: Backend A, response status not 2xx: generateDoc and                 *)
(* generateDocStream fail at once with an error carrying the status and     *)
(* the response body text; the body is never read as a stream, onChunk is   *)
(* never invoked and no LLMResponse is returned.                            *)
C18_ZhipuNon2xxIsFatal ==
    adapter.kind = "zhipu" /\ response # NoHttpResponse /\ ~ResponseOk(response) =>
        /\ gstate = "failed"
        /\ outcome.kind = "error"
        /\ outcome.status = response.status
        /\ outcome.body = response.body
        /\ net.reads = 0
        /\ net.chunks = 0

C18_Witness ==
    /\ adapter.kind = "zhipu" /\ streaming
    /\ response.status = 401 /\ response.body = "text"
    /\ gstate = "failed"
    /\ outcome = HttpError(response)

-----------------------------------------------------------------------------
(* Claims about the signed URL of Backend C, checked under SpecSign *)

\* two computations with the same host, date, path, API key and secret
SameSigningInputs(p, q) ==
    /\ ToUTCString(p.tick) = ToUTCString(q.tick)
    /\ ReplaceOrigin(getWsUrl(signer[p.who])) = ReplaceOrigin(getWsUrl(signer[q.who]))
    /\ signer[p.who].apiKey = signer[q.who].apiKey
    /\ signer[p.who].apiSecret = signer[q.who].apiSecret

(* C23: the HMAC signing of Backend C is deterministic: for fixed host,     *)
(* date, request path and secret two computations give the same signature,  *)
(* and for a fixed API key too the same signed URL; the result depends on   *)
(* nothing but host, date, path, API key and secret.                        *)
C23_SigningDeterministic ==
    \A i \in 1..Len(signed) : \A j \in 1..Len(signed) :
        /\ (/\ ToUTCString(signed[i].tick) = ToUTCString(signed[j].tick)
            /\ ReplaceOrigin(getWsUrl(signer[signed[i].who]))
                 = ReplaceOrigin(getWsUrl(signer[signed[j].who]))
            /\ signer[signed[i].who].apiSecret = signer[signed[j].who].apiSecret)
           => signed[i].signature = signed[j].signature
        /\ SameSigningInputs(signed[i], signed[j]) => signed[i].url = signed[j].url

\* two adapters that differ in application and model name sign at two ticks
\* of one second
C23_Witness ==
    /\ Len(signed) = 2
    /\ signed[1].who # signed[2].who
    /\ signed[1].tick # signed[2].tick
    /\ signer[1].appId # signer[2].appId
    /\ signer[1].model # signer[2].model
    /\ SameSigningInputs(signed[1], signed[2])

-----------------------------------------------------------------------------
(* Claims about the method visibility, checked under SpecVisibility *)

LeadingDouble(chars) == Len(chars) >= 2 /\ chars[1] = Underscore /\ chars[2] = Underscore

TrailingDouble(chars) ==
    Len(chars) >= 2 /\ chars[Len(chars)] = Underscore /\ chars[Len(chars) - 1] = Underscore

(* C29: for every method name: a leading double underscore without a        *)
(* trailing double underscore is private; a single leading underscore is    *)
(* protected; every other name, also a double-underscore name that ends in  *)
(* a double underscore such as __init__ or __str__, is public.              *)
C29_VisibilityFromName ==
    ustate = "done" /\ uname # <<>> =>
        uvisibility =
            IF LeadingDouble(uname) /\ ~TrailingDouble(uname) THEN "private"
            ELSE IF LeadingDouble(uname) THEN "public"
            ELSE IF uname[1] = Underscore THEN "protected"
            ELSE "public"

-----------------------------------------------------------------------------
(* Claims about the class properties, checked under SpecProperties *)

\* the names assigned through self inside the body of __init__, where the
\* body ends with the first line at or below the indent of __init__ that
\* defines another method, def or async def
RECURSIVE NamesAssignedInInit(_, _, _, _)
NamesAssignedInInit(body, i, inInit, initIndent) ==
    IF i > Len(body) THEN {}
    ELSE LET line == body[i] IN
         IF IsInitLine(line)
         THEN NamesAssignedInInit(body, i + 1, TRUE, Indent(line))
         ELSE IF inInit /\ IsMethodLine(line) /\ Indent(line) <= initIndent
         THEN NamesAssignedInInit(body, i + 1, FALSE, initIndent)
         ELSE (IF inInit /\ HasSelfAssignment(line) THEN {SelfNameIn(line)} ELSE {})
              \cup NamesAssignedInInit(body, i + 1, inInit, initIndent)

\* the names defined at class level
ClassLevelNames(body) ==
    {"y" : i \in {j \in 1..Len(body) : IsClassPropLine(body[j])}}

(* C30: a self.<name> = assignment is recorded as a property only if it     *)
(* lies inside the body of __init__; the init-tracking state is left as     *)
(* soon as a line at or below the indent of __init__ defines another        *)
(* method (def or async def), so assignments inside any other method are    *)
(* never recorded; and the property list never holds a name twice.          *)
C30_PropertiesOnlyFromInit ==
    ustate = "done" /\ ubody # <<>> =>
        /\ \A j \in 1..Len(uproperties) :
             uproperties[j].name \in
                 NamesAssignedInInit(ubody, 1, FALSE, 0) \cup ClassLevelNames(ubody)
        /\ \A j, k \in 1..Len(uproperties) :
             j # k => uproperties[j].name # uproperties[k].name

=============================================================================
